---- MODULE Spec2Model ----
(***************************************************************************)
(* Availability matching and overlap analytics of event-coordinator.      *)
(*                                                                         *)
(* The UserAvailability table is the sequence db (rows in the order the    *)
(* database returns them).  The event matcher                              *)
(* (accounts/services/availability_service.py) and the analytics pipeline  *)
(* (organizations/analytics.py, organizations/views.py) are operators over *)
(* the rows they read; update_availability is a transaction over db.      *)
(***************************************************************************)
EXTENDS Integers, Sequences, FiniteSets, TLC

VARIABLES db, matchCall, analyticsCall, tx, obs, lastUpdate, nUpdates,
          subs, queue, logs, notifyCall, setReq, unsubReq, lastOp

vars == <<db, matchCall, analyticsCall, tx, obs, lastUpdate, nUpdates,
          subs, queue, logs, notifyCall, setReq, unsubReq, lastOp>>

\* The subscriptions, the queued delivery tasks, the notification log and the
\* record of the last send_event_notifications run.
notifyVars == <<subs, queue, logs, notifyCall>>

\* The set_availability request and the unsubscribe request in progress, and
\* the last request that finished.
requestVars == <<setReq, unsubReq, lastOp>>

-----------------------------------------------------------------------------
(* Values.                                                                 *)

\* Python None for the nullable integer columns and foreign keys.
None == -1

\* Python None for the nullable DateField / DateTimeField.
NoneDate == [year |-> 0, month |-> 0, day |-> 0]

\* 'HH:MM' text is the sequence of its four digits; a time is hour, minute.
HM(h, m) == <<h \div 10, h % 10, m \div 10, m % 10>>

ValueError == [hour |-> None, minute |-> None]

\* datetime.strptime(text, '%H:%M').time(): a ValueError for an hour over 23
\* or a minute over 59.
strptime(text) ==
    LET h == 10 * text[1] + text[2]
        m == 10 * text[3] + text[4]
    IN  IF h <= 23 /\ m <= 59 THEN [hour |-> h, minute |-> m] ELSE ValueError

\* t.strftime('%H:%M')
strftime(t) == HM(t.hour, t.minute)

\* Minutes since midnight of 'HH:MM' text.
TextMinutes(text) == (10 * text[1] + text[2]) * 60 + 10 * text[3] + text[4]

time_to_minutes(t) == t.hour * 60 + t.minute

minutes_to_time(minutes) == [hour |-> minutes \div 60, minute |-> minutes % 60]

\* datetime.date: the proleptic Gregorian calendar of the standard library.
Date(y, m, d) == [year |-> y, month |-> m, day |-> d]

IsLeap(y) == (y % 4 = 0) /\ ((y % 100 # 0) \/ (y % 400 = 0))

DaysInMonth(y, m) ==
    IF m = 2 THEN (IF IsLeap(y) THEN 29 ELSE 28)
    ELSE IF m \in {4, 6, 9, 11} THEN 30 ELSE 31

RECURSIVE DaysBeforeMonth(_, _)
DaysBeforeMonth(y, m) ==
    IF m = 1 THEN 0 ELSE DaysBeforeMonth(y, m - 1) + DaysInMonth(y, m - 1)

toordinal(d) ==
    LET y == d.year - 1
    IN  y * 365 + (y \div 4) - (y \div 100) + (y \div 400)
          + DaysBeforeMonth(d.year, d.month) + d.day

\* date.weekday(): Monday is 0.
weekday(d) == (toordinal(d) + 6) % 7

\* current_date += timedelta(days=1)
NextDay(d) ==
    IF d.day < DaysInMonth(d.year, d.month) THEN Date(d.year, d.month, d.day + 1)
    ELSE IF d.month < 12 THEN Date(d.year, d.month + 1, 1)
    ELSE Date(d.year + 1, 1, 1)

\* d1 <= d2 on dates
DateLE(d1, d2) == toordinal(d1) <= toordinal(d2)

\* A row of UserAvailability.
Row(u, a, o, rt, dow, dom, sd, slots, at) ==
    [user |-> u, anonymous_subscription |-> a, organization |-> o,
     recurrence_type |-> rt, day_of_week |-> dow, day_of_month |-> dom,
     specific_date |-> sd, time_slots |-> slots, availability_type |-> at]

Slot(s, e) == [start |-> s, end |-> e]

\* UserAvailability.objects.filter(user=user, organization=organization)
RECURSIVE FilterUser(_, _, _)
FilterUser(rows, user, organization) ==
    IF rows = <<>> THEN <<>>
    ELSE (IF Head(rows).user = user /\ Head(rows).organization = organization
          THEN <<Head(rows)>> ELSE <<>>) \o FilterUser(Tail(rows), user, organization)

\* UserAvailability.objects.filter(anonymous_subscription=..., organization=...)
RECURSIVE FilterAnonymous(_, _, _)
FilterAnonymous(rows, anon, organization) ==
    IF rows = <<>> THEN <<>>
    ELSE (IF Head(rows).anonymous_subscription = anon /\ Head(rows).organization = organization
          THEN <<Head(rows)>> ELSE <<>>) \o FilterAnonymous(Tail(rows), anon, organization)

\* UserAvailability.objects.filter(organization=organization)
RECURSIVE FilterOrganization(_, _)
FilterOrganization(rows, organization) ==
    IF rows = <<>> THEN <<>>
    ELSE (IF Head(rows).organization = organization THEN <<Head(rows)>> ELSE <<>>)
         \o FilterOrganization(Tail(rows), organization)

-----------------------------------------------------------------------------
(* Event matcher: AvailabilityService._check_event_match.                  *)

\* Mutant: touching endpoints overlap.
_times_overlap_inclusive(start1, end1, start2, end2) ==
    time_to_minutes(start1) <= time_to_minutes(end2)
        /\ time_to_minutes(start2) <= time_to_minutes(end1)

\* start1 < end2 and start2 < end1, in minutes since midnight.
_times_overlap(start1, end1, start2, end2) ==
    time_to_minutes(start1) < time_to_minutes(end2)
        /\ time_to_minutes(start2) < time_to_minutes(end1)

\* Mutant: the end time is read without the fallback to the start time.
EventEndTime_NoFallback(event) == event.end_datetime.time

\* event_end_time = event.end_datetime.time() if event.end_datetime else event_start_time
EventEndTime(event) ==
    IF event.end_datetime.date # NoneDate THEN event.end_datetime.time
    ELSE event.start_datetime.time

\* Mutant: the matcher also applies monthly rules.
MatcherApplies_WithMonthly(availability, event_date) ==
    IF availability.recurrence_type = "weekly"
    THEN weekday(event_date) = availability.day_of_week
    ELSE IF availability.recurrence_type = "specific_date"
    THEN event_date = availability.specific_date
    ELSE availability.day_of_month = event_date.day

\* The recurrence test of the matcher: weekly and specific_date only, any other
\* recurrence type is skipped.
MatcherApplies(availability, event_date) ==
    IF availability.recurrence_type = "weekly"
    THEN weekday(event_date) = availability.day_of_week
    ELSE IF availability.recurrence_type = "specific_date"
    THEN event_date = availability.specific_date
    ELSE FALSE

\* Mutant: a rule without time slots matches the whole day.
SlotsMatch_EmptyMatches(time_slots, event_start_time, event_end_time) ==
    \/ time_slots = <<>>
    \/ \E i \in 1..Len(time_slots) :
          /\ strptime(time_slots[i].start) # ValueError
          /\ strptime(time_slots[i].end) # ValueError
          /\ _times_overlap(event_start_time, event_end_time,
                            strptime(time_slots[i].start), strptime(time_slots[i].end))

\* The loop over one rule's time slots; a slot whose text does not parse is
\* skipped.
RECURSIVE SlotsMatch(_, _, _)
SlotsMatch(time_slots, event_start_time, event_end_time) ==
    IF time_slots = <<>> THEN FALSE
    ELSE LET slot_start == strptime(Head(time_slots).start)
             slot_end == strptime(Head(time_slots).end)
         IN  IF slot_start # ValueError /\ slot_end # ValueError
                /\ _times_overlap(event_start_time, event_end_time, slot_start, slot_end)
             THEN TRUE
             ELSE SlotsMatch(Tail(time_slots), event_start_time, event_end_time)

RECURSIVE MatchLoop(_, _)
MatchLoop(availabilities, event) ==
    IF availabilities = <<>> THEN FALSE
    ELSE IF MatcherApplies(Head(availabilities), event.start_datetime.date)
            /\ SlotsMatch(Head(availabilities).time_slots,
                          event.start_datetime.time, EventEndTime(event))
    THEN TRUE
    ELSE MatchLoop(Tail(availabilities), event)

_check_event_match(availabilities, event) ==
    IF availabilities = <<>> THEN FALSE ELSE MatchLoop(availabilities, event)

user_matches_event(rows, user, event) ==
    _check_event_match(FilterUser(rows, user, event.organization), event)

anonymous_matches_event(rows, anon, event) ==
    _check_event_match(FilterAnonymous(rows, anon, event.organization), event)

\* A subscriber is <<"user", id>> or <<"anon", id>>.
matches_event(rows, subscriber, event) ==
    IF subscriber[1] = "user" THEN user_matches_event(rows, subscriber[2], event)
    ELSE anonymous_matches_event(rows, subscriber[2], event)

-----------------------------------------------------------------------------
(* Analytics: organizations/analytics.py and the ranking of the views.     *)

days_of_week ==
    <<"Monday", "Tuesday", "Wednesday", "Thursday", "Friday", "Saturday", "Sunday">>

\* date.strftime('%Y-%m-%d'): the digits of the year, the month and the day.
strftime_date(d) ==
    <<d.year \div 1000, (d.year \div 100) % 10, (d.year \div 10) % 10, d.year % 10,
      d.month \div 10, d.month % 10, d.day \div 10, d.day % 10>>

\* datetime.strptime(date_part, '%Y-%m-%d').date()
strptime_date(text) ==
    Date(1000 * text[1] + 100 * text[2] + 10 * text[3] + text[4],
         10 * text[5] + text[6], 10 * text[7] + text[8])

\* The date range: every date from start_date to end_date, both included.
RECURSIVE DateRange(_, _)
DateRange(current_date, end_date) ==
    IF DateLE(current_date, end_date)
    THEN <<current_date>> \o DateRange(NextDay(current_date), end_date)
    ELSE <<>>

\* user.username and user.email: user 1 is 'sam', any other user is 'kim'.
UserName(user) == IF user = 1 THEN "sam" ELSE "kim"

UserEmail(user) == IF user = 1 THEN "sam@example.org" ELSE "kim@example.org"

\* anonymous_subscription.name and .email: anonymous subscription 1 carries
\* the name and the email of user 1.
AnonymousName(anon) == IF anon = 1 THEN "sam" ELSE "lee"

AnonymousEmail(anon) == IF anon = 1 THEN "sam@example.org" ELSE "lee@example.org"

\* Mutant: the identity is the numeric id alone.
SubscriberId_NoKind(kind, id) == <<"subscriber", id>>

\* f"user_{availability.user.id}" and f"anon_{availability.anonymous_subscription.id}"
SubscriberId(kind, id) == <<kind, id>>

\* subscriber_info of a rule: the identity is the owner kind and the owner id.
SubscriberInfo(availability) ==
    IF availability.user # None
    THEN [id |-> SubscriberId("user", availability.user),
          name |-> UserName(availability.user), email |-> UserEmail(availability.user),
          type |-> "registered",
          availability_type |-> availability.availability_type]
    ELSE [id |-> SubscriberId("anon", availability.anonymous_subscription),
          name |-> AnonymousName(availability.anonymous_subscription),
          email |-> AnonymousEmail(availability.anonymous_subscription),
          type |-> "anonymous",
          availability_type |-> availability.availability_type]

\* Mutant: a day_of_month past the end of the month is clamped to its last day.
AvailabilityApplies_Clamped(availability, check_date) ==
    IF availability.recurrence_type = "weekly"
    THEN availability.day_of_week = weekday(check_date)
    ELSE IF availability.recurrence_type = "monthly"
    THEN \/ availability.day_of_month = check_date.day
         \/ /\ availability.day_of_month > DaysInMonth(check_date.year, check_date.month)
            /\ check_date.day = DaysInMonth(check_date.year, check_date.month)
    ELSE IF availability.recurrence_type = "specific_date"
    THEN availability.specific_date = check_date
    ELSE FALSE

\* Does the rule apply to check_date.
AvailabilityApplies(availability, check_date) ==
    IF availability.recurrence_type = "weekly"
    THEN availability.day_of_week = weekday(check_date)
    ELSE IF availability.recurrence_type = "monthly"
    THEN availability.day_of_month = check_date.day
    ELSE IF availability.recurrence_type = "specific_date"
    THEN availability.specific_date = check_date
    ELSE FALSE

ApplicableDates(availability, date_range) ==
    SelectSeq(date_range, LAMBDA check_date : AvailabilityApplies(availability, check_date))

\* The slots one rule adds for one applicable date.
SlotsOnDate(availability, date) ==
    [j \in 1..Len(availability.time_slots) |->
        [subscriber |-> SubscriberInfo(availability),
         date |-> date,
         start_time |-> strptime(availability.time_slots[j].start),
         end_time |-> strptime(availability.time_slots[j].end),
         day_name |-> days_of_week[weekday(date) + 1],
         recurrence_type |-> availability.recurrence_type]]

RECURSIVE SlotsOnDates(_, _)
SlotsOnDates(availability, applicable_dates) ==
    IF applicable_dates = <<>> THEN <<>>
    ELSE SlotsOnDate(availability, Head(applicable_dates))
           \o SlotsOnDates(availability, Tail(applicable_dates))

RECURSIVE collect_subscriber_slots(_, _)
collect_subscriber_slots(availabilities, date_range) ==
    IF availabilities = <<>> THEN <<>>
    ELSE LET availability == Head(availabilities)
         IN  (IF availability.user = None /\ availability.anonymous_subscription = None
              THEN <<>>
              ELSE SlotsOnDates(availability, ApplicableDates(availability, date_range)))
               \o collect_subscriber_slots(Tail(availabilities), date_range)

\* The keys of time_boundaries_by_date, in the order the dictionary holds them:
\* the order in which the dates first appear in subscriber_slots.
RECURSIVE BoundaryDates(_, _)
BoundaryDates(subscriber_slots, seen) ==
    IF subscriber_slots = <<>> THEN <<>>
    ELSE IF Head(subscriber_slots).date \in seen
    THEN BoundaryDates(Tail(subscriber_slots), seen)
    ELSE <<Head(subscriber_slots).date>>
           \o BoundaryDates(Tail(subscriber_slots), seen \cup {Head(subscriber_slots).date})

\* time_boundaries_by_date[date]: the set of the slots' start and end minutes.
find_time_boundaries(subscriber_slots, date) ==
    UNION { {time_to_minutes(subscriber_slots[i].start_time),
             time_to_minutes(subscriber_slots[i].end_time)} :
              i \in { k \in 1..Len(subscriber_slots) : subscriber_slots[k].date = date } }

Min(S) == CHOOSE x \in S : \A y \in S : x <= y

\* sorted(boundaries)
RECURSIVE sorted(_)
sorted(S) == IF S = {} THEN <<>> ELSE <<Min(S)>> \o sorted(S \ {Min(S)})

\* Mutant: the end of the slot is not compared with the end of the period.
Covers_StartOnly(slot, period_start_minutes, period_end_minutes) ==
    time_to_minutes(slot.start_time) <= period_start_minutes

\* Mutant: the start of the slot is not compared with the start of the period.
Covers_EndOnly(slot, period_start_minutes, period_end_minutes) ==
    time_to_minutes(slot.end_time) >= period_end_minutes

\* slot_start_minutes <= period_start_minutes and slot_end_minutes >= period_end_minutes
Covers(slot, period_start_minutes, period_end_minutes) ==
    /\ time_to_minutes(slot.start_time) <= period_start_minutes
    /\ time_to_minutes(slot.end_time) >= period_end_minutes

TimeKey(period_start_minutes, period_end_minutes) ==
    <<strftime(minutes_to_time(period_start_minutes)),
      strftime(minutes_to_time(period_end_minutes))>>

\* Mutant: subscriber_ids_seen is never consulted.
AlreadySeen_Never(subscriber_id, subscriber_ids_seen) == FALSE

\* subscriber_id in subscriber_ids_seen
AlreadySeen(subscriber_id, subscriber_ids_seen) == subscriber_id \in subscriber_ids_seen

\* The loop over subscriber_slots for one period: acc holds period_subscribers
\* and subscriber_ids_seen.
RECURSIVE PeriodSubscribers(_, _, _, _, _)
PeriodSubscribers(subscriber_slots, date, period_start_minutes, period_end_minutes, acc) ==
    IF subscriber_slots = <<>> THEN acc
    ELSE LET slot == Head(subscriber_slots)
             subscriber_detail ==
                 [id |-> slot.subscriber.id, type |-> slot.subscriber.type,
                  availability_type |-> slot.subscriber.availability_type,
                  time_slot |-> TimeKey(period_start_minutes, period_end_minutes),
                  date |-> strftime_date(date),
                  day_name |-> slot.day_name,
                  recurrence_type |-> slot.recurrence_type]
             next ==
                 IF /\ slot.date = date
                    /\ Covers(slot, period_start_minutes, period_end_minutes)
                    /\ ~AlreadySeen(slot.subscriber.id, acc.seen)
                 THEN [sure |-> IF slot.subscriber.availability_type = "sure"
                                THEN Append(acc.sure, subscriber_detail) ELSE acc.sure,
                       maybe |-> IF slot.subscriber.availability_type = "maybe"
                                 THEN Append(acc.maybe, subscriber_detail) ELSE acc.maybe,
                       seen |-> acc.seen \cup {slot.subscriber.id}]
                 ELSE acc
         IN  PeriodSubscribers(Tail(subscriber_slots), date, period_start_minutes,
                               period_end_minutes, next)

\* One period of one date: its entry of datetime_slot_details, when it has
\* subscribers (the key is the date text and the time key).
PeriodEntry(subscriber_slots, date, period_start_minutes, period_end_minutes) ==
    LET period_subscribers ==
            PeriodSubscribers(subscriber_slots, date, period_start_minutes,
                              period_end_minutes, [sure |-> <<>>, maybe |-> <<>>, seen |-> {}])
    IN  IF period_subscribers.sure # <<>> \/ period_subscribers.maybe # <<>>
        THEN <<[date |-> strftime_date(date),
                time |-> TimeKey(period_start_minutes, period_end_minutes),
                sure |-> period_subscribers.sure,
                maybe |-> period_subscribers.maybe]>>
        ELSE <<>>

\* for i in range(len(sorted_boundaries) - 1)
RECURSIVE DatePeriods(_, _, _, _)
DatePeriods(subscriber_slots, date, sorted_boundaries, i) ==
    IF i > Len(sorted_boundaries) - 1 THEN <<>>
    ELSE PeriodEntry(subscriber_slots, date, sorted_boundaries[i], sorted_boundaries[i + 1])
           \o DatePeriods(subscriber_slots, date, sorted_boundaries, i + 1)

\* for date, boundaries in time_boundaries_by_date.items()
RECURSIVE AnalyzeDates(_, _)
AnalyzeDates(subscriber_slots, dates) ==
    IF dates = <<>> THEN <<>>
    ELSE DatePeriods(subscriber_slots, Head(dates),
                     sorted(find_time_boundaries(subscriber_slots, Head(dates))), 1)
           \o AnalyzeDates(subscriber_slots, Tail(dates))

\* datetime_slot_details, as the sequence of its items in dictionary order.
analyze_time_periods(subscriber_slots) ==
    AnalyzeDates(subscriber_slots, BoundaryDates(subscriber_slots, {}))

\* datetime_slot_scores, as the sequence of its items in dictionary order.
calculate_slot_scores(datetime_slot_details) ==
    [k \in 1..Len(datetime_slot_details) |->
        LET data == datetime_slot_details[k]
            date_obj == strptime_date(data.date)
        IN  [date |-> data.date, time |-> data.time,
             sure_count |-> Len(data.sure), maybe_count |-> Len(data.maybe),
             total_count |-> Len(data.sure) + Len(data.maybe),
             day_name |-> days_of_week[weekday(date_obj) + 1]]]

\* subscriber_id in weekly_subscriber_ids[day_name]
WeeklySeen(subscriber_id, weekly_subscriber_ids) == subscriber_id \in weekly_subscriber_ids

\* Mutant: every recurrence type is counted in the weekly summary.
WeeklyCounted_Any(slot) == TRUE

\* slot['recurrence_type'] == 'weekly'
WeeklyCounted(slot) == slot.recurrence_type = "weekly"

\* weekly_details[day_name]['subscribers']: the loop over subscriber_slots for
\* one day name; acc holds the list and weekly_subscriber_ids[day_name].
RECURSIVE WeeklySubscribers(_, _, _)
WeeklySubscribers(subscriber_slots, day_name, acc) ==
    IF subscriber_slots = <<>> THEN acc.subscribers
    ELSE LET slot == Head(subscriber_slots)
             subscriber_detail ==
                 [id |-> slot.subscriber.id, type |-> slot.subscriber.type,
                  availability_type |-> slot.subscriber.availability_type,
                  time_slot |-> <<strftime(slot.start_time), strftime(slot.end_time)>>,
                  date |-> strftime_date(slot.date),
                  day_name |-> day_name,
                  recurrence_type |-> slot.recurrence_type]
             next ==
                 IF /\ slot.day_name = day_name
                    /\ WeeklyCounted(slot)
                    /\ ~WeeklySeen(slot.subscriber.id, acc.seen)
                 THEN [subscribers |-> Append(acc.subscribers, subscriber_detail),
                       seen |-> acc.seen \cup {slot.subscriber.id}]
                 ELSE acc
         IN  WeeklySubscribers(Tail(subscriber_slots), day_name, next)

\* weekly_summary: one entry per day of days_of_week, in that order.
prepare_weekly_summary(subscriber_slots) ==
    [d \in 1..Len(days_of_week) |->
        LET subscribers == WeeklySubscribers(subscriber_slots, days_of_week[d],
                                             [subscribers |-> <<>>, seen |-> {}])
        IN  [day |-> days_of_week[d],
             subscriber_count |-> Len(subscribers),
             sure_count |-> Len(SelectSeq(subscribers, LAMBDA x : x.availability_type = "sure")),
             maybe_count |-> Len(SelectSeq(subscribers, LAMBDA x : x.availability_type = "maybe")),
             subscribers |-> subscribers]]

\* Is the text of some slot of the rule refused by strptime.
SlotRaises(availability) ==
    \E j \in 1..Len(availability.time_slots) :
        \/ strptime(availability.time_slots[j].start) = ValueError
        \/ strptime(availability.time_slots[j].end) = ValueError

\* Does collect_subscriber_slots raise: strptime is called, outside any try,
\* for every slot of a rule that has an owner and an applicable date.
CollectRaises(availabilities, date_range) ==
    \E i \in 1..Len(availabilities) :
        /\ ~(availabilities[i].user = None /\ availabilities[i].anonymous_subscription = None)
        /\ ApplicableDates(availabilities[i], date_range) # <<>>
        /\ SlotRaises(availabilities[i])

\* An exception that leaves the function.
Raised(exception) == [raised |-> exception]

IsRaised(result) == "raised" \in DOMAIN result

\* The analytics of the rows of one organization over a date range.
get_availability_analytics(rows, organization, start_date, end_date) ==
    LET availabilities == FilterOrganization(rows, organization)
        date_range == DateRange(start_date, end_date)
        subscriber_slots == collect_subscriber_slots(availabilities, date_range)
        datetime_slot_details == analyze_time_periods(subscriber_slots)
    IN  IF availabilities = <<>>
        THEN [datetime_slot_details |-> <<>>, datetime_slot_scores |-> <<>>,
              weekly_summary |-> <<>>, total_subscribers |-> 0]
        ELSE IF CollectRaises(availabilities, date_range)
        THEN Raised("ValueError")
        ELSE IF subscriber_slots = <<>>
        THEN [datetime_slot_details |-> <<>>, datetime_slot_scores |-> <<>>,
              weekly_summary |-> <<>>, total_subscribers |-> Len(availabilities)]
        ELSE [datetime_slot_details |-> datetime_slot_details,
              datetime_slot_scores |-> calculate_slot_scores(datetime_slot_details),
              weekly_summary |-> prepare_weekly_summary(subscriber_slots),
              total_subscribers |->
                  Cardinality({ subscriber_slots[i].subscriber.id :
                                  i \in 1..Len(subscriber_slots) })]

\* The number of slots the analytics view shows.
TopSlots == 6

\* sorted(items, key=..., reverse=True), keys[i] being the key of items[i]: a
\* stable sort, items with equal keys keep the order of the dictionary.
RECURSIVE SortedReverse(_, _)
SortedReverse(items, keys) ==
    IF items = <<>> THEN <<>>
    ELSE LET best == CHOOSE i \in 1..Len(items) :
                        /\ \A j \in 1..Len(items) : keys[j] <= keys[i]
                        /\ \A j \in 1..(i - 1) : keys[j] < keys[i]
             rest(q) == [k \in 1..(Len(q) - 1) |-> IF k < best THEN q[k] ELSE q[k + 1]]
         IN  <<items[best]>> \o SortedReverse(rest(items), rest(keys))

\* Mutant: the slice keeps one entry more than asked.
Truncate_OneMore(items, n) == SubSeq(items, 1, IF Len(items) < n + 1 THEN Len(items) ELSE n + 1)

\* items[:n]
Truncate(items, n) == SubSeq(items, 1, IF Len(items) < n THEN Len(items) ELSE n)

\* top_datetime_slots of the analytics view: by total_count, the first six.
top_datetime_slots(datetime_slot_scores) ==
    Truncate(SortedReverse(datetime_slot_scores,
                           [k \in 1..Len(datetime_slot_scores) |->
                               datetime_slot_scores[k].total_count]),
             TopSlots)

\* top_datetime_slots of Organization.get_enhanced_availability_analytics: by
\* score = sure_count * 2 + maybe_count, the first six.
top_datetime_slots_by_score(datetime_slot_scores) ==
    Truncate(SortedReverse(datetime_slot_scores,
                           [k \in 1..Len(datetime_slot_scores) |->
                               datetime_slot_scores[k].sure_count * 2
                                 + datetime_slot_scores[k].maybe_count]),
             TopSlots)

\* The order of the ranker: is slot x ranked before slot y: more sure, or as many sure and more maybe,
\* or equal counts and an earlier date, or the same date and an earlier start.
RankedBefore(x, y) ==
    \/ x.sure_count > y.sure_count
    \/ x.sure_count = y.sure_count /\ x.maybe_count > y.maybe_count
    \/ /\ x.sure_count = y.sure_count
       /\ x.maybe_count = y.maybe_count
       /\ \/ toordinal(strptime_date(x.date)) < toordinal(strptime_date(y.date))
          \/ /\ x.date = y.date
             /\ TextMinutes(x.time[1]) <= TextMinutes(y.time[1])

\* Organization.get_top_availability_slots(limit, start_date, end_date): the
\* scored slots in the order of the ranker, cut to limit; no slot for a limit
\* that is not positive.
get_top_availability_slots(datetime_slot_scores, limit) ==
    IF limit <= 0 THEN <<>>
    ELSE Truncate(SortedReverse(datetime_slot_scores,
                                [k \in 1..Len(datetime_slot_scores) |->
                                    Cardinality({ j \in 1..Len(datetime_slot_scores) :
                                                    /\ j # k
                                                    /\ RankedBefore(datetime_slot_scores[k],
                                                                    datetime_slot_scores[j]) })]),
                  limit)

-----------------------------------------------------------------------------
(* Bounded inputs.                                                         *)

\* The calendar window of the model: Monday 2024-04-29 and the days after it.
Monday == Date(2024, 4, 29)

Tuesday == Date(2024, 4, 30)

Wednesday == Date(2024, 5, 1)

NextMonday == Date(2024, 5, 6)

T0800 == HM(8, 0)
T0900 == HM(9, 0)
T0930 == HM(9, 30)
T1000 == HM(10, 0)
T1100 == HM(11, 0)
T1130 == HM(11, 30)
T1200 == HM(12, 0)
T1400 == HM(14, 0)

\* Largest number of rows of the table handed to the matcher.
MaxMatchRows == 2

NoCall == [kind |-> "none"]

Weekly(u, a, o, dow, slots, at) == Row(u, a, o, "weekly", dow, None, NoneDate, slots, at)

Monthly(u, a, o, dom, slots, at) == Row(u, a, o, "monthly", None, dom, NoneDate, slots, at)

SpecificDate(u, a, o, sd, slots, at) == Row(u, a, o, "specific_date", None, None, sd, slots, at)

\* Slot lists of the matcher's rows: none, one slot, two slots.
MatchSlotLists ==
    { <<>>,
      <<Slot(T0900, T1100)>>,
      <<Slot(T0800, T0900), Slot(T1100, T1200)>> }

\* Rows of user 1 in organization 1 with every recurrence type, and rows of
\* another subscriber and of another organization.
MatchRowChoices ==
    { Weekly(1, None, 1, 0, sl, "sure") : sl \in MatchSlotLists }
      \cup { Weekly(1, None, 1, 1, sl, "sure") : sl \in MatchSlotLists \ {<<>>} }
      \cup { Monthly(1, None, 1, 29, sl, "sure") : sl \in MatchSlotLists }
      \cup { SpecificDate(1, None, 1, Monday, sl, "maybe") : sl \in MatchSlotLists \ {<<>>} }
      \cup { Weekly(1, None, 2, 0, <<Slot(T0900, T1100)>>, "sure"),
             Weekly(None, 1, 1, 0, <<Slot(T0900, T1100)>>, "sure"),
             SpecificDate(None, 1, 1, Tuesday, <<Slot(T0900, T1100)>>, "sure") }

DateTime(d, t) == [date |-> d, time |-> t]

NoDateTime == [date |-> NoneDate, time |-> strptime(HM(0, 0))]

Event(o, sd, st, ed, et) ==
    [organization |-> o, start_datetime |-> DateTime(sd, strptime(st)),
     end_datetime |-> IF ed = NoneDate THEN NoDateTime ELSE DateTime(ed, strptime(et))]

\* Events of organization 1 on the Monday and the Tuesday: inside a slot, touching
\* a slot's end, touching a slot's start, without an end (inside a slot and at a
\* slot's edge), ending a day later at the same time of day, and ending a day
\* later at an earlier time of day; one event of organization 2.
EventChoices ==
    UNION { { Event(1, d, T0930, d, T1000),
              Event(1, d, T1100, d, T1130),
              Event(1, d, T0800, d, T0900),
              Event(1, d, T1000, NoneDate, T1000),
              Event(1, d, T1100, NoneDate, T1100),
              Event(1, d, T1000, NextDay(d), T1000),
              Event(1, d, T1000, NextDay(d), T0900) } : d \in {Monday, Tuesday} }
      \cup { Event(2, Monday, T0930, Monday, T1000) }

\* All sequences over S of length at most n.
RECURSIVE SeqUpTo(_, _)
SeqUpTo(S, n) ==
    IF n = 0 THEN { <<>> }
    ELSE SeqUpTo(S, n - 1)
           \cup { Append(q, x) : q \in { r \in SeqUpTo(S, n - 1) : Len(r) = n - 1 }, x \in S }

-----------------------------------------------------------------------------
(* The matcher as called by the notification step.                         *)

NoTx == [open |-> FALSE]

NoObs == [kind |-> "none"]

NoUpdate == [kind |-> "none"]

NoAnalytics == [kind |-> "none"]

\* No subscription, no queued task, no log record, no notification run.
NotifyIdle ==
    /\ subs = <<>>
    /\ queue = <<>>
    /\ logs = <<>>
    /\ notifyCall = NoCall

NoRequest == [pc |-> "idle"]

NoOp == [kind |-> "none"]

\* No request in progress and none finished.
RequestIdle ==
    /\ setReq = NoRequest
    /\ unsubReq = NoRequest
    /\ lastOp = NoOp

UserMatchesEvent(user, event) ==
    /\ matchCall' = [kind |-> "match", subscriber |-> <<"user", user>>, event |-> event,
                     result |-> user_matches_event(db, user, event)]
    /\ UNCHANGED <<db, analyticsCall, tx, obs, lastUpdate, nUpdates>>
    /\ UNCHANGED notifyVars
    /\ UNCHANGED requestVars

AnonymousMatchesEvent(anon, event) ==
    /\ matchCall' = [kind |-> "match", subscriber |-> <<"anon", anon>>, event |-> event,
                     result |-> anonymous_matches_event(db, anon, event)]
    /\ UNCHANGED <<db, analyticsCall, tx, obs, lastUpdate, nUpdates>>
    /\ UNCHANGED notifyVars
    /\ UNCHANGED requestVars

MatchInit ==
    /\ db \in SeqUpTo(MatchRowChoices, MaxMatchRows)
    /\ matchCall = NoCall
    /\ analyticsCall = NoAnalytics
    /\ tx = NoTx
    /\ obs = NoObs
    /\ lastUpdate = NoUpdate
    /\ nUpdates = 0
    /\ NotifyIdle
    /\ RequestIdle

MatchNext ==
    \/ \E event \in EventChoices : UserMatchesEvent(1, event)
    \/ \E event \in EventChoices : AnonymousMatchesEvent(1, event)

SpecMatch == MatchInit /\ [][MatchNext]_vars

-----------------------------------------------------------------------------
(* The analytics view.                                                     *)

\* Largest number of rows of the table read by the analytics.
MaxAnalyticsRows == 2

RuleA == Weekly(1, None, 1, 0, <<Slot(T0900, T1200)>>, "sure")

RuleB == Weekly(2, None, 1, 0, <<Slot(T1000, T1400)>>, "maybe")

\* A rule whose slot starts at '25:00'.
RuleBadText == Weekly(2, None, 1, 0, <<Slot(HM(25, 0), T1200)>>, "sure")

\* A rule with seven slots on the Tuesday.
RuleManySlots ==
    Weekly(2, None, 1, 1,
           <<Slot(T0800, T0900), Slot(T0900, T0930), Slot(T0930, T1000), Slot(T1000, T1100),
             Slot(T1100, T1130), Slot(T1130, T1200), Slot(T1200, T1400)>>, "maybe")

\* Rules of two users and one anonymous subscription (whose id is the id of
\* user 1) on the Monday, the Tuesday and the Wednesday of the window, of every
\* recurrence type, one rule of another organization and one rule with
\* unparsable time text.
AnalyticsRowChoices ==
    { RuleA, RuleB,
      Weekly(1, None, 1, 0, <<Slot(T1000, T1400)>>, "maybe"),
      Weekly(1, None, 1, 0, <<Slot(T0900, T1000), Slot(T1000, T1200)>>, "sure"),
      Weekly(2, None, 1, 1, <<Slot(T0900, T1200)>>, "sure"),
      Weekly(None, 1, 1, 1, <<Slot(T1000, T1400)>>, "maybe"),
      Weekly(None, 1, 1, 0, <<Slot(T0900, T1200)>>, "sure"),
      Monthly(2, None, 1, 30, <<Slot(T0900, T1200)>>, "maybe"),
      SpecificDate(None, 1, 1, Wednesday, <<Slot(T1000, T1400)>>, "sure"),
      Weekly(1, None, 2, 0, <<Slot(T0900, T1200)>>, "sure"),
      RuleBadText }

\* availability_analytics: the analytics of the organization over the date
\* range of the request, and its top slots.
AvailabilityAnalytics(organization, start_date, end_date) ==
    /\ analyticsCall' =
          LET analytics == get_availability_analytics(db, organization, start_date, end_date)
          IN  IF IsRaised(analytics)
              THEN [kind |-> "raised", organization |-> organization,
                    start_date |-> start_date, end_date |-> end_date,
                    exception |-> analytics.raised]
              ELSE [kind |-> "analytics", organization |-> organization,
                    start_date |-> start_date, end_date |-> end_date,
                    analytics |-> analytics,
                    top_datetime_slots |-> top_datetime_slots(analytics.datetime_slot_scores),
                    top_by_score |-> top_datetime_slots_by_score(analytics.datetime_slot_scores)]
    /\ UNCHANGED <<db, matchCall, tx, obs, lastUpdate, nUpdates>>
    /\ UNCHANGED notifyVars
    /\ UNCHANGED requestVars

\* The limits of the requests: int(request.GET.get('limit', 3)).
LimitChoices == {-1, 0, 2, 3}

\* get_availability_slots: the top slots for the event-creation helper; any
\* exception becomes an error response.
GetAvailabilitySlots(organization, start_date, end_date, limit) ==
    /\ analyticsCall' =
          LET analytics == get_availability_analytics(db, organization, start_date, end_date)
          IN  IF IsRaised(analytics)
              THEN [kind |-> "slots_error", organization |-> organization,
                    start_date |-> start_date, end_date |-> end_date, limit |-> limit]
              ELSE [kind |-> "slots", organization |-> organization,
                    start_date |-> start_date, end_date |-> end_date, limit |-> limit,
                    scored |-> Len(analytics.datetime_slot_scores),
                    slots |-> get_top_availability_slots(analytics.datetime_slot_scores, limit)]
    /\ UNCHANGED <<db, matchCall, tx, obs, lastUpdate, nUpdates>>
    /\ UNCHANGED notifyVars
    /\ UNCHANGED requestVars

\* Tables that hold the rule with seven slots.
ManySlotsTables == { <<RuleManySlots>>, <<RuleA, RuleManySlots>> }

\* Tables with rules for the Monday and for the Monday of the week after.
NextWeekTables ==
    { <<SpecificDate(1, None, 1, NextMonday, <<Slot(T0900, T1200)>>, "sure"),
        SpecificDate(None, 1, 1, Monday, <<Slot(T0900, T1200)>>, "sure")>> }

\* A rule with two slots on the Monday and a gap between them.
RuleGap == Weekly(1, None, 1, 0, <<Slot(T0800, T0900), Slot(T1100, T1200)>>, "sure")

GapTables == { <<RuleGap>>, <<RuleGap, RuleB>> }

AnalyticsInit ==
    /\ db \in SeqUpTo(AnalyticsRowChoices, MaxAnalyticsRows)
                \cup ManySlotsTables \cup NextWeekTables \cup GapTables
    /\ matchCall = NoCall
    /\ analyticsCall = NoAnalytics
    /\ tx = NoTx
    /\ obs = NoObs
    /\ lastUpdate = NoUpdate
    /\ nUpdates = 0
    /\ NotifyIdle
    /\ RequestIdle

AnalyticsNext ==
    \/ \E start_date \in {Monday, Tuesday}, end_date \in {Monday, Tuesday, Wednesday} :
          AvailabilityAnalytics(1, start_date, end_date)
    \/ AvailabilityAnalytics(1, Monday, NextMonday)
    \/ \E limit \in LimitChoices : GetAvailabilitySlots(1, Monday, Wednesday, limit)

SpecAnalytics == AnalyticsInit /\ [][AnalyticsNext]_vars

-----------------------------------------------------------------------------
(* AvailabilityService.update_availability, a transaction over the table.  *)

\* Largest number of update_availability calls in one behaviour.
MaxUpdates == 2

\* A submitted item: the keys the form accepts.
Item(rt, dow, dom, sd, slots, at) ==
    [recurrence_type |-> rt, day_of_week |-> dow, day_of_month |-> dom,
     specific_date |-> sd, time_slots |-> slots, availability_type |-> at]

NoText == <<>>

\* A Weekly/Monday item, a SpecificDate item for the Tuesday, a Monthly item
\* and a Weekly item without time slots.
ItemWeekly == Item("weekly", 0, None, NoText, <<Slot(T0900, T1100)>>, "sure")

ItemSpecificDate ==
    Item("specific_date", None, None, strftime_date(Tuesday), <<Slot(T1000, T1400)>>, "maybe")

ItemMonthly == Item("monthly", None, 29, NoText, <<Slot(T0900, T1100)>>, "sure")

ItemNoSlots == Item("weekly", 0, None, NoText, <<>>, "sure")

\* A SpecificDate item whose text '2024-02-30' is not a date.
ItemBadDate ==
    Item("specific_date", None, None, <<2, 0, 2, 4, 0, 2, 3, 0>>, <<Slot(T0900, T1100)>>, "sure")

\* The submitted availability_data lists.
DataChoices ==
    { <<>>, <<ItemWeekly>>, <<ItemSpecificDate>>, <<ItemWeekly, ItemSpecificDate>>,
      <<ItemMonthly>>, <<ItemNoSlots, ItemSpecificDate>>, <<ItemBadDate, ItemWeekly>> }

\* AvailabilityService._parse_date: None for no text and for text that is not
\* a date of the calendar.
_parse_date(date_str) ==
    IF date_str = NoText THEN NoneDate
    ELSE LET d == strptime_date(date_str)
         IN  IF /\ d.year >= 1
                /\ d.month \in 1..12
                /\ d.day \in 1..DaysInMonth(d.year, d.month)
             THEN d ELSE NoneDate

\* The record update_availability builds from an item: day_of_month is always
\* None, specific_date is parsed for a specific_date item only.
BuildAvailability(user, anon, organization, item) ==
    Row(user, anon, organization, item.recurrence_type, item.day_of_week, None,
        IF item.recurrence_type = "specific_date" /\ item.specific_date # NoText
        THEN _parse_date(item.specific_date) ELSE NoneDate,
        item.time_slots, item.availability_type)

\* UserAvailability.clean: does the record pass, no ValidationError.
clean(availability) ==
    /\ ~(availability.user = None /\ availability.anonymous_subscription = None)
    /\ ~(availability.user # None /\ availability.anonymous_subscription # None)
    /\ ~(availability.recurrence_type = "weekly" /\ availability.day_of_week = None)
    /\ ~(availability.recurrence_type = "monthly" /\ availability.day_of_month = None)
    /\ ~(availability.recurrence_type = "specific_date" /\ availability.specific_date = NoneDate)
    /\ availability.time_slots # <<>>

\* AvailabilityForm._validate_time_slot: both texts are times and start < end.
_validate_time_slot(slot) ==
    /\ strptime(slot.start) # ValueError
    /\ strptime(slot.end) # ValueError
    /\ time_to_minutes(strptime(slot.start)) < time_to_minutes(strptime(slot.end))

\* AvailabilityForm._validate_availability_item: does the item pass, no
\* ValidationError; an empty time_slots list is allowed.
_validate_availability_item(item) ==
    /\ ~(item.recurrence_type = "weekly" /\ item.day_of_week = None)
    /\ ~(item.recurrence_type = "monthly" /\ item.day_of_month = None)
    /\ ~(item.recurrence_type = "specific_date" /\ item.specific_date = NoText)
    /\ \/ Len(item.time_slots) = 0
       \/ \A j \in 1..Len(item.time_slots) : _validate_time_slot(item.time_slots[j])

\* Mutant: the delete filters by the subscriber only, not by the organization.
ClearExisting_AnyOrganization(rows, user, anon, organization) ==
    IF user # None
    THEN SelectSeq(rows, LAMBDA r : r.user # user)
    ELSE SelectSeq(rows, LAMBDA r : r.anonymous_subscription # anon)

\* Mutant: the existing rules are cleared only when new data is written.
ClearExisting_Keep(rows, user, anon, organization) == rows

\* Clear existing availability: the rows of the pair are deleted.
ClearExisting(rows, user, anon, organization) ==
    IF user # None
    THEN SelectSeq(rows, LAMBDA r : ~(r.user = user /\ r.organization = organization))
    ELSE SelectSeq(rows, LAMBDA r : ~(r.anonymous_subscription = anon
                                        /\ r.organization = organization))

\* Mutant: no transaction, every write is visible at once.
CommittedRows_Autocommit(committed, transaction) ==
    IF transaction.open THEN transaction.work ELSE committed

\* The rows a query outside the transaction reads: transaction.atomic keeps the
\* writes of an open transaction to itself until it commits.
CommittedRows(committed, transaction) == committed

\* Mutant: a missing organization is not checked.
UpdateArgumentsValid_AnyOrganization(user, anon, organization) ==
    /\ ~(user = None /\ anon = None)
    /\ ~(user # None /\ anon # None)

\* Mutant: the owner arguments are not checked.
UpdateArgumentsValid_AnyOwner(user, anon, organization) == organization # None

\* The checks at the head of update_availability: which ValidationError, if any.
UpdateArgumentsValid(user, anon, organization) ==
    /\ organization # None
    /\ ~(user = None /\ anon = None)
    /\ ~(user # None /\ anon # None)

\* update_availability is called: a ValidationError for bad arguments,
\* otherwise the transaction opens on the committed table.
UpdateBegin(user, anon, organization, availability_data) ==
    /\ ~tx.open
    /\ nUpdates < MaxUpdates
    /\ nUpdates' = nUpdates + 1
    /\ obs' = NoObs
    /\ IF UpdateArgumentsValid(user, anon, organization)
       THEN /\ tx' = [open |-> TRUE, user |-> user, anonymous_subscription |-> anon,
                      organization |-> organization,
                      availability_data |-> availability_data,
                      remaining |-> availability_data,
                      snapshot |-> db, work |-> db,
                      created_records |-> <<>>, pc |-> "clear"]
            /\ UNCHANGED <<db, lastUpdate>>
       ELSE /\ lastUpdate' = [kind |-> "raised", user |-> user,
                              anonymous_subscription |-> anon,
                              organization |-> organization,
                              before |-> db]
            /\ UNCHANGED <<db, tx>>
    /\ UNCHANGED <<matchCall, analyticsCall>>
    /\ UNCHANGED notifyVars
    /\ UNCHANGED requestVars

\* The delete of the pair's rows; with no data the call returns the empty list.
UpdateClear ==
    /\ tx.open
    /\ tx.pc = "clear"
    /\ tx' = [tx EXCEPT !.work = ClearExisting(tx.work, tx.user, tx.anonymous_subscription,
                                               tx.organization),
                        !.pc = IF tx.availability_data = <<>> THEN "return" ELSE "create"]
    /\ obs' = NoObs
    /\ UNCHANGED <<db, matchCall, analyticsCall, lastUpdate, nUpdates>>
    /\ UNCHANGED notifyVars
    /\ UNCHANGED requestVars

\* One turn of the loop over the items: build, full_clean, save; an item that
\* fails validation is skipped.
UpdateCreate ==
    /\ tx.open
    /\ tx.pc = "create"
    /\ LET availability == BuildAvailability(tx.user, tx.anonymous_subscription,
                                             tx.organization, Head(tx.remaining))
           saved == clean(availability)
       IN  tx' = [tx EXCEPT !.work = IF saved THEN Append(tx.work, availability) ELSE tx.work,
                            !.created_records =
                                IF saved THEN Append(tx.created_records, availability)
                                ELSE tx.created_records,
                            !.remaining = Tail(tx.remaining),
                            !.pc = IF Tail(tx.remaining) = <<>> THEN "return" ELSE "create"]
    /\ obs' = NoObs
    /\ UNCHANGED <<db, matchCall, analyticsCall, lastUpdate, nUpdates>>
    /\ UNCHANGED notifyVars
    /\ UNCHANGED requestVars

\* The call returns and the transaction commits.
UpdateReturn ==
    /\ tx.open
    /\ tx.pc = "return"
    /\ db' = tx.work
    /\ tx' = NoTx
    /\ lastUpdate' = [kind |-> "returned", user |-> tx.user,
                      anonymous_subscription |-> tx.anonymous_subscription,
                      organization |-> tx.organization,
                      availability_data |-> tx.availability_data,
                      before |-> tx.snapshot,
                      created_records |-> tx.created_records]
    /\ obs' = NoObs
    /\ UNCHANGED <<matchCall, analyticsCall, nUpdates>>
    /\ UNCHANGED notifyVars
    /\ UNCHANGED requestVars

\* The matcher's query for one subscriber and organization, from another
\* connection.
MatcherRead(subscriber, organization) ==
    /\ obs' = [kind |-> "read", by |-> "matcher", subscriber |-> subscriber,
               organization |-> organization,
               rows |-> IF subscriber[1] = "user"
                        THEN FilterUser(CommittedRows(db, tx), subscriber[2], organization)
                        ELSE FilterAnonymous(CommittedRows(db, tx), subscriber[2], organization)]
    /\ UNCHANGED <<db, matchCall, analyticsCall, tx, lastUpdate, nUpdates>>
    /\ UNCHANGED notifyVars
    /\ UNCHANGED requestVars

\* The analytics' query for one organization, from another connection.
AnalyticsRead(organization) ==
    /\ obs' = [kind |-> "read", by |-> "analytics", subscriber |-> <<"all", None>>,
               organization |-> organization,
               rows |-> FilterOrganization(CommittedRows(db, tx), organization)]
    /\ UNCHANGED <<db, matchCall, analyticsCall, tx, lastUpdate, nUpdates>>
    /\ UNCHANGED notifyVars
    /\ UNCHANGED requestVars

\* The tables the calls start from: the empty table, and a table with a rule
\* of user 1 in each organization and a rule of anonymous subscription 1.
StoredTables ==
    { <<>>,
      <<SpecificDate(1, None, 1, Monday, <<Slot(T0930, T1130)>>, "maybe"),
        Weekly(1, None, 2, 0, <<Slot(T0900, T1100)>>, "sure"),
        Weekly(None, 1, 1, 1, <<Slot(T1000, T1400)>>, "sure")>> }

Init ==
    /\ db \in StoredTables
    /\ matchCall = NoCall
    /\ analyticsCall = NoAnalytics
    /\ tx = NoTx
    /\ obs = NoObs
    /\ lastUpdate = NoUpdate
    /\ nUpdates = 0
    /\ NotifyIdle
    /\ RequestIdle

Next ==
    \/ \E user \in {None, 1}, anon \in {None, 1}, organization \in {None, 1, 2},
          availability_data \in DataChoices :
          UpdateBegin(user, anon, organization, availability_data)
    \/ UpdateClear
    \/ UpdateCreate
    \/ UpdateReturn
    \/ \E subscriber \in {<<"user", 1>>, <<"anon", 1>>} : MatcherRead(subscriber, 1)
    \/ AnalyticsRead(1)

Spec == Init /\ [][Next]_vars

-----------------------------------------------------------------------------
(* collect_subscriber_slots over longer date ranges.                       *)

OneSlot == <<Slot(T0900, T1100)>>

\* Rules of user 1 of every recurrence type: Weekly on Monday and on Sunday,
\* Monthly on the 1st, the 29th, the 30th and the 31st, SpecificDate on the
\* leap day, on the Monday of the window and on the last day of 2023.
ExpandRuleChoices ==
    { Weekly(1, None, 1, 0, OneSlot, "sure"),
      Weekly(1, None, 1, 6, OneSlot, "sure"),
      Monthly(1, None, 1, 1, OneSlot, "sure"),
      Monthly(1, None, 1, 29, OneSlot, "sure"),
      Monthly(1, None, 1, 30, OneSlot, "sure"),
      Monthly(1, None, 1, 31, OneSlot, "sure"),
      SpecificDate(1, None, 1, Date(2024, 2, 29), OneSlot, "sure"),
      SpecificDate(1, None, 1, Monday, OneSlot, "sure"),
      SpecificDate(1, None, 1, Date(2023, 12, 31), OneSlot, "sure") }

\* Tables of one rule, and tables with a rule of user 1 and a rule of
\* anonymous subscription 1.
ExpandTables ==
    { <<r>> : r \in ExpandRuleChoices }
      \cup { <<Monthly(1, None, 1, 31, OneSlot, "sure"), Weekly(None, 1, 1, 2, OneSlot, "maybe")>>,
             <<Weekly(1, None, 1, 0, OneSlot, "sure"), Monthly(None, 1, 1, 30, OneSlot, "maybe")>>,
             <<SpecificDate(1, None, 1, Monday, OneSlot, "sure"),
               SpecificDate(None, 1, 1, Tuesday, OneSlot, "maybe")>> }

\* The date ranges: February and March of a leap year and of a common year,
\* April and May, the turn of the year, a week, one day, the leap day and
\* the day after, two days, and an empty range.
ExpandWindows ==
    { <<Date(2024, 2, 1), Date(2024, 3, 31)>>,
      <<Date(2023, 2, 1), Date(2023, 3, 31)>>,
      <<Date(2024, 4, 1), Date(2024, 5, 31)>>,
      <<Date(2023, 12, 25), Date(2024, 1, 7)>>,
      <<Monday, NextMonday>>,
      <<Monday, Monday>>,
      <<Date(2024, 2, 29), Date(2024, 3, 1)>>,
      <<Tuesday, Wednesday>>,
      <<Tuesday, Monday>> }

\* collect_subscriber_slots on the rules of the organization and the date
\* range built from start_date and end_date.
CollectSubscriberSlots(organization, start_date, end_date) ==
    /\ analyticsCall' =
          [kind |-> "collected", organization |-> organization,
           start_date |-> start_date, end_date |-> end_date,
           subscriber_slots |-> collect_subscriber_slots(FilterOrganization(db, organization),
                                                         DateRange(start_date, end_date))]
    /\ UNCHANGED <<db, matchCall, tx, obs, lastUpdate, nUpdates>>
    /\ UNCHANGED notifyVars
    /\ UNCHANGED requestVars

ExpandInit ==
    /\ db \in ExpandTables
    /\ matchCall = NoCall
    /\ analyticsCall = NoAnalytics
    /\ tx = NoTx
    /\ obs = NoObs
    /\ lastUpdate = NoUpdate
    /\ nUpdates = 0
    /\ NotifyIdle
    /\ RequestIdle

ExpandNext ==
    \E window \in ExpandWindows : CollectSubscriberSlots(1, window[1], window[2])

SpecExpand == ExpandInit /\ [][ExpandNext]_vars

-----------------------------------------------------------------------------
(* Notifications: notifications/tasks.py and Event.matches_user_availability. *)

\* A row of Subscription: the user, with the user's phone number.
Subscription(user, organization, preference, phone) ==
    [model |-> "Subscription", user |-> user, id |-> None, organization |-> organization,
     notification_preference |-> preference, phone_number |-> phone,
     whatsapp_number |-> phone]

\* A row of AnonymousSubscription.
AnonymousSubscription(id, organization, preference, phone, whatsapp) ==
    [model |-> "AnonymousSubscription", user |-> None, id |-> id,
     organization |-> organization, notification_preference |-> preference,
     phone_number |-> phone, whatsapp_number |-> whatsapp]

\* start_time <= event_time <= end_time on times of day
TimeLE(t1, t2) == time_to_minutes(t1) <= time_to_minutes(t2)

\* Event._time_matches_slots: "True", "False", or "ValueError" when strptime
\* refuses a slot's text before a slot matched.
RECURSIVE _time_matches_slots(_, _)
_time_matches_slots(event_time, time_slots) ==
    IF time_slots = <<>> THEN "False"
    ELSE LET start_time == strptime(Head(time_slots).start)
             end_time == strptime(Head(time_slots).end)
         IN  IF start_time = ValueError \/ end_time = ValueError THEN "ValueError"
             ELSE IF TimeLE(start_time, event_time) /\ TimeLE(event_time, end_time)
             THEN "True"
             ELSE _time_matches_slots(event_time, Tail(time_slots))

\* The recurrence test of Event.matches_user_availability, on the event's
\* date_time (the start of the event).
EventRuleApplies(availability, date_time) ==
    \/ availability.recurrence_type = "weekly"
         /\ availability.day_of_week = weekday(date_time.date)
    \/ availability.recurrence_type = "monthly"
         /\ availability.day_of_month = date_time.date.day
    \/ availability.recurrence_type = "specific_date"
         /\ availability.specific_date = date_time.date

\* for availability in availabilities
RECURSIVE EventAvailabilityLoop(_, _)
EventAvailabilityLoop(availabilities, date_time) ==
    IF availabilities = <<>> THEN "False"
    ELSE LET matched ==
                 IF EventRuleApplies(Head(availabilities), date_time)
                 THEN _time_matches_slots(date_time.time, Head(availabilities).time_slots)
                 ELSE "False"
         IN  IF matched = "False"
             THEN EventAvailabilityLoop(Tail(availabilities), date_time)
             ELSE matched

\* Event.matches_user_availability
matches_user_availability(rows, event, user) ==
    EventAvailabilityLoop(FilterUser(rows, user, event.organization), event.start_datetime)

\* Event.matches_anonymous_availability
matches_anonymous_availability(rows, event, anonymous_subscription) ==
    EventAvailabilityLoop(FilterAnonymous(rows, anonymous_subscription, event.organization),
                          event.start_datetime)

\* should_notify of one subscriber: "True", "False" or "ValueError".
should_notify(rows, event, subscription) ==
    IF subscription.notification_preference = "all" THEN "True"
    ELSE IF subscription.notification_preference = "matching"
    THEN IF subscription.model = "Subscription"
         THEN matches_user_availability(rows, event, subscription.user)
         ELSE matches_anonymous_availability(rows, event, subscription.id)
    ELSE "False"

\* A queued delivery task.
Task(name, event, user_id, anon_subscription_id) ==
    [task |-> name, event |-> event, user_id |-> user_id,
     anon_subscription_id |-> anon_subscription_id, retries |-> 0]

\* The tasks .delay queues for one subscriber to notify.
Dispatch(event, notification_type, subscription) ==
    IF subscription.model = "Subscription"
    THEN IF notification_type \in {"email", "sms", "whatsapp"}
         THEN <<Task(notification_type, event, subscription.user, None)>>
         ELSE <<>>
    ELSE IF \/ notification_type = "email"
            \/ notification_type = "sms" /\ subscription.phone_number # ""
            \/ notification_type = "whatsapp" /\ subscription.whatsapp_number # ""
         THEN <<Task(notification_type, event, None, subscription.id)>>
         ELSE <<>>

\* The two loops of send_event_notifications over the subscribers; acc holds
\* the tasks queued so far, notifications_sent, and whether an exception left
\* the loop.
RECURSIVE NotifyLoop(_, _, _, _, _)
NotifyLoop(rows, event, notification_type, subscribers, acc) ==
    IF subscribers = <<>> THEN acc
    ELSE LET notify == should_notify(rows, event, Head(subscribers))
         IN  IF notify = "ValueError"
             THEN [acc EXCEPT !.raised = TRUE]
             ELSE NotifyLoop(rows, event, notification_type, Tail(subscribers),
                             IF notify = "True"
                             THEN [acc EXCEPT
                                     !.enqueued = acc.enqueued
                                         \o Dispatch(event, notification_type, Head(subscribers)),
                                     !.notifications_sent = acc.notifications_sent + 1]
                             ELSE acc)

\* send_event_notifications: the regular subscribers of the event's
\* organization, then its anonymous subscribers.
send_event_notifications(rows, subscriptions, event, notification_type) ==
    LET regular_subscribers ==
            SelectSeq(subscriptions, LAMBDA x : x.model = "Subscription"
                                                  /\ x.organization = event.organization)
        anonymous_subscribers ==
            SelectSeq(subscriptions, LAMBDA x : x.model = "AnonymousSubscription"
                                                  /\ x.organization = event.organization)
    IN  NotifyLoop(rows, event, notification_type, regular_subscribers \o anonymous_subscribers,
                   [enqueued |-> <<>>, notifications_sent |-> 0, raised |-> FALSE])

\* max_retries of every delivery task
max_retries == 3

\* Largest number of NotificationLog rows written in one behaviour.
MaxLogs == 3

\* NotificationLog.objects.create of the delivery tasks: the tasks for
\* registered users pass user=user, the tasks for anonymous subscribers pass
\* user=None; none passes anonymous_subscription, which keeps its default.
NotificationLog(task, success) ==
    [event |-> task.event, user |-> task.user_id, anonymous_subscription |-> None,
     notification_type |-> task.task, success |-> success]

\* The number a text task sends to: the user's phone_number, the anonymous
\* subscription's phone_number or whatsapp_number.
RecipientNumber(subscriptions, task) ==
    LET rows == SelectSeq(subscriptions,
                          LAMBDA x : IF task.user_id # None
                                     THEN x.model = "Subscription" /\ x.user = task.user_id
                                     ELSE x.model = "AnonymousSubscription"
                                            /\ x.id = task.anon_subscription_id)
    IN  IF rows = <<>> THEN ""
        ELSE IF task.task = "whatsapp" /\ task.user_id = None THEN Head(rows).whatsapp_number
        ELSE Head(rows).phone_number

\* How one run of a delivery task can end: "returned" (an early return False:
\* object not found, Twilio not available, no number), "sent", "failed" (a
\* TwilioException), "error" (any other exception, which retries).
TaskOutcomes(subscriptions, task) ==
    IF task.task = "email" THEN {"returned", "sent", "error"}
    ELSE IF RecipientNumber(subscriptions, task) = "" THEN {"returned"}
    ELSE {"returned", "sent", "failed", "error"}

RemoveAt(q, k) == SubSeq(q, 1, k - 1) \o SubSeq(q, k + 1, Len(q))

\* The event is created and send_event_notifications runs for it.
SendEventNotifications(event, notification_type) ==
    /\ notifyCall = NoCall
    /\ LET run == send_event_notifications(db, subs, event, notification_type)
       IN  /\ queue' = queue \o run.enqueued
           /\ notifyCall' = [kind |-> "notify", event |-> event,
                             notification_type |-> notification_type,
                             enqueued |-> run.enqueued,
                             notifications_sent |-> run.notifications_sent,
                             raised |-> run.raised]
    /\ UNCHANGED <<db, matchCall, analyticsCall, tx, obs, lastUpdate, nUpdates, subs, logs>>
    /\ UNCHANGED requestVars

\* A worker runs the k-th queued task to an early return: nothing is logged.
DeliverReturned(k) ==
    /\ k \in 1..Len(queue)
    /\ "returned" \in TaskOutcomes(subs, queue[k])
    /\ queue' = RemoveAt(queue, k)
    /\ UNCHANGED <<db, matchCall, analyticsCall, tx, obs, lastUpdate, nUpdates, subs, logs,
                   notifyCall>>
    /\ UNCHANGED requestVars

\* A worker runs the k-th queued task and the message is sent.
DeliverSent(k) ==
    /\ k \in 1..Len(queue)
    /\ "sent" \in TaskOutcomes(subs, queue[k])
    /\ Len(logs) < MaxLogs
    /\ logs' = Append(logs, NotificationLog(queue[k], TRUE))
    /\ queue' = RemoveAt(queue, k)
    /\ UNCHANGED <<db, matchCall, analyticsCall, tx, obs, lastUpdate, nUpdates, subs,
                   notifyCall>>
    /\ UNCHANGED requestVars

\* A worker runs the k-th queued text task and Twilio refuses: logged, no retry.
DeliverFailed(k) ==
    /\ k \in 1..Len(queue)
    /\ "failed" \in TaskOutcomes(subs, queue[k])
    /\ Len(logs) < MaxLogs
    /\ logs' = Append(logs, NotificationLog(queue[k], FALSE))
    /\ queue' = RemoveAt(queue, k)
    /\ UNCHANGED <<db, matchCall, analyticsCall, tx, obs, lastUpdate, nUpdates, subs,
                   notifyCall>>
    /\ UNCHANGED requestVars

\* A worker runs the k-th queued task and it raises: logged, then self.retry
\* queues it again until max_retries is used up.
DeliverError(k) ==
    /\ k \in 1..Len(queue)
    /\ "error" \in TaskOutcomes(subs, queue[k])
    /\ Len(logs) < MaxLogs
    /\ logs' = Append(logs, NotificationLog(queue[k], FALSE))
    /\ queue' = IF queue[k].retries < max_retries
                THEN Append(RemoveAt(queue, k),
                            [queue[k] EXCEPT !.retries = queue[k].retries + 1])
                ELSE RemoveAt(queue, k)
    /\ UNCHANGED <<db, matchCall, analyticsCall, tx, obs, lastUpdate, nUpdates, subs,
                   notifyCall>>
    /\ UNCHANGED requestVars

\* Tables of availability rules read by the notification step: none, a weekly
\* rule of user 1, a monthly rule of user 1, a weekly rule of anonymous
\* subscription 1, a rule of user 1 whose slot text is not a time, and rules
\* of both subscribers.
NotifyRuleTables ==
    { <<>>,
      <<Weekly(1, None, 1, 0, <<Slot(T0900, T1100)>>, "sure")>>,
      <<Monthly(1, None, 1, 29, <<Slot(T0900, T1100)>>, "sure")>>,
      <<Weekly(None, 1, 1, 0, <<Slot(T0900, T1100)>>, "sure")>>,
      <<Weekly(1, None, 1, 0, <<Slot(HM(25, 0), T1200)>>, "sure")>>,
      <<Weekly(1, None, 1, 0, <<Slot(T0900, T1100)>>, "sure"),
        Weekly(None, 1, 1, 0, <<Slot(T0900, T1100)>>, "sure")>> }

\* Tables of subscriptions: user 1 and anonymous subscription 1 of
\* organization 1 with either preference, with and without numbers, and a
\* subscription to organization 2.
SubscriptionTables ==
    { <<Subscription(1, 1, "matching", "+1")>>,
      <<Subscription(1, 1, "all", ""), AnonymousSubscription(1, 1, "matching", "", "")>>,
      <<Subscription(1, 1, "matching", "+1"), AnonymousSubscription(1, 1, "all", "+2", "+2")>>,
      <<AnonymousSubscription(1, 1, "all", "", ""), Subscription(1, 2, "all", "+1")>> }

\* Events announced: inside the slot, starting at the slot's end, ending at
\* the slot's start, running into the next day, and one of organization 2.
NotifyEventChoices ==
    { Event(1, Monday, T0930, Monday, T1000),
      Event(1, Monday, T1100, Monday, T1130),
      Event(1, Monday, T0800, Monday, T0900),
      Event(1, Monday, T1000, NextDay(Monday), T0900),
      Event(1, Tuesday, T0930, Tuesday, T1000),
      Event(2, Monday, T0930, Monday, T1000) }

NotifyInit ==
    /\ db \in NotifyRuleTables
    /\ subs \in SubscriptionTables
    /\ queue = <<>>
    /\ logs = <<>>
    /\ notifyCall = NoCall
    /\ matchCall = NoCall
    /\ analyticsCall = NoAnalytics
    /\ tx = NoTx
    /\ obs = NoObs
    /\ lastUpdate = NoUpdate
    /\ nUpdates = 0
    /\ RequestIdle

NotifyNext ==
    \/ \E event \in NotifyEventChoices, notification_type \in {"email", "sms", "whatsapp"} :
         SendEventNotifications(event, notification_type)
    \/ \E k \in 1..2 : DeliverReturned(k)
    \/ \E k \in 1..2 : DeliverSent(k)
    \/ \E k \in 1..2 : DeliverFailed(k)
    \/ \E k \in 1..2 : DeliverError(k)

SpecNotify == NotifyInit /\ [][NotifyNext]_vars

-----------------------------------------------------------------------------
(* Subscribing, unsubscribing and the set_availability request.            *)

\* The records the loop of update_availability creates: an item whose record
\* fails full_clean is skipped.
RECURSIVE CreatedRecords(_, _, _, _)
CreatedRecords(user, anon, organization, availability_data) ==
    IF availability_data = <<>> THEN <<>>
    ELSE LET availability == BuildAvailability(user, anon, organization, Head(availability_data))
         IN  (IF clean(availability) THEN <<availability>> ELSE <<>>)
               \o CreatedRecords(user, anon, organization, Tail(availability_data))

\* AvailabilityService.update_availability as one committed transaction over
\* the rows: the ValidationError of the head checks, or the table after the
\* delete and the creates and the list the call returns.
update_availability(rows, user, anon, organization, availability_data) ==
    IF ~UpdateArgumentsValid(user, anon, organization)
    THEN Raised("ValidationError")
    ELSE LET created_records == CreatedRecords(user, anon, organization, availability_data)
         IN  [rows |-> ClearExisting(rows, user, anon, organization) \o created_records,
              created_records |-> created_records]

\* SubscriptionService.is_user_subscribed
is_user_subscribed(subscriptions, user, organization) ==
    \E k \in 1..Len(subscriptions) :
        /\ subscriptions[k].model = "Subscription"
        /\ subscriptions[k].user = user
        /\ subscriptions[k].organization = organization

\* subscription.delete() of the user's subscription to the organization
DeleteUserSubscription(subscriptions, user, organization) ==
    SelectSeq(subscriptions, LAMBDA x : ~(x.model = "Subscription" /\ x.user = user
                                            /\ x.organization = organization))

\* UserAvailability.objects.filter(user=user, organization=organization).delete()
DeletePairAvailability(rows, user, organization) ==
    SelectSeq(rows, LAMBDA r : ~(r.user = user /\ r.organization = organization))

\* on_delete=CASCADE of UserAvailability.anonymous_subscription
CascadeAnonymous(rows, anon) ==
    SelectSeq(rows, LAMBDA r : r.anonymous_subscription # anon)

\* The subscribe view: create_subscription, a get_or_create.
Subscribe(user, organization) ==
    /\ ~is_user_subscribed(subs, user, organization)
    /\ subs' = Append(subs, Subscription(user, organization, "all", ""))
    /\ lastOp' = [kind |-> "subscribed", via |-> "create_subscription",
                  subscriber |-> <<"user", user>>, organization |-> organization,
                  result |-> TRUE]
    /\ UNCHANGED <<db, matchCall, analyticsCall, tx, obs, lastUpdate, nUpdates>>
    /\ UNCHANGED <<queue, logs, notifyCall, setReq, unsubReq>>

\* SubscriptionService.unsubscribe_user: the subscription is deleted, or
\* False when there is none.
UnsubscribeUser(user, organization) ==
    /\ subs' = DeleteUserSubscription(subs, user, organization)
    /\ lastOp' = [kind |-> "unsubscribed", via |-> "unsubscribe_user",
                  subscriber |-> <<"user", user>>, organization |-> organization,
                  result |-> is_user_subscribed(subs, user, organization)]
    /\ UNCHANGED <<db, matchCall, analyticsCall, tx, obs, lastUpdate, nUpdates>>
    /\ UNCHANGED <<queue, logs, notifyCall, setReq, unsubReq>>

\* The unsubscribe view, first statement of delete_subscription: the
\* subscription is fetched and deleted; without one the call returns False.
DeleteSubscriptionBegin(user, organization) ==
    /\ unsubReq = NoRequest
    /\ IF is_user_subscribed(subs, user, organization)
       THEN /\ subs' = DeleteUserSubscription(subs, user, organization)
            /\ unsubReq' = [pc |-> "availability", user |-> user,
                            organization |-> organization]
            /\ UNCHANGED lastOp
       ELSE /\ lastOp' = [kind |-> "unsubscribed", via |-> "delete_subscription",
                          subscriber |-> <<"user", user>>, organization |-> organization,
                          result |-> FALSE]
            /\ UNCHANGED <<subs, unsubReq>>
    /\ UNCHANGED <<db, matchCall, analyticsCall, tx, obs, lastUpdate, nUpdates>>
    /\ UNCHANGED <<queue, logs, notifyCall, setReq>>

\* Second statement of delete_subscription: the availability of the pair is
\* deleted and the call returns True.
DeleteSubscriptionAvailability ==
    /\ unsubReq.pc = "availability"
    /\ db' = DeletePairAvailability(db, unsubReq.user, unsubReq.organization)
    /\ unsubReq' = NoRequest
    /\ lastOp' = [kind |-> "unsubscribed", via |-> "delete_subscription",
                  subscriber |-> <<"user", unsubReq.user>>,
                  organization |-> unsubReq.organization, result |-> TRUE]
    /\ UNCHANGED <<matchCall, analyticsCall, tx, obs, lastUpdate, nUpdates>>
    /\ UNCHANGED <<subs, queue, logs, notifyCall, setReq>>

\* _handle_anonymous_unsubscribe: anonymous_subscription.delete(), which
\* cascades to the rows that point to it.
AnonymousUnsubscribe(anon, organization) ==
    /\ \E k \in 1..Len(subs) :
          /\ subs[k].model = "AnonymousSubscription"
          /\ subs[k].id = anon
          /\ subs[k].organization = organization
    /\ subs' = SelectSeq(subs, LAMBDA x : ~(x.model = "AnonymousSubscription" /\ x.id = anon))
    /\ db' = CascadeAnonymous(db, anon)
    /\ lastOp' = [kind |-> "unsubscribed", via |-> "_handle_anonymous_unsubscribe",
                  subscriber |-> <<"anon", anon>>, organization |-> organization,
                  result |-> TRUE]
    /\ UNCHANGED <<matchCall, analyticsCall, tx, obs, lastUpdate, nUpdates>>
    /\ UNCHANGED <<queue, logs, notifyCall, setReq, unsubReq>>

\* set_availability up to the subscription check: a user without a
\* subscription is redirected, a subscribed user's POST goes on to the form.
SetAvailabilityCheck(user, organization, availability_data) ==
    /\ setReq = NoRequest
    /\ IF is_user_subscribed(subs, user, organization)
       THEN /\ setReq' = [pc |-> "update", user |-> user, organization |-> organization,
                          availability_data |-> availability_data]
            /\ UNCHANGED lastOp
       ELSE /\ lastOp' = [kind |-> "redirected", via |-> "set_availability",
                          subscriber |-> <<"user", user>>, organization |-> organization,
                          result |-> FALSE]
            /\ UNCHANGED setReq
    /\ UNCHANGED <<db, matchCall, analyticsCall, tx, obs, lastUpdate, nUpdates>>
    /\ UNCHANGED <<subs, queue, logs, notifyCall, unsubReq>>

\* _handle_availability_update: form.save runs update_availability, whose
\* transaction commits.
SetAvailabilityUpdate ==
    /\ setReq.pc = "update"
    /\ LET updated == update_availability(db, setReq.user, None, setReq.organization,
                                          setReq.availability_data)
       IN  /\ db' = IF IsRaised(updated) THEN db ELSE updated.rows
           /\ lastOp' = [kind |-> "availability_set", via |-> "set_availability",
                         subscriber |-> <<"user", setReq.user>>,
                         organization |-> setReq.organization,
                         result |-> ~IsRaised(updated)]
    /\ setReq' = NoRequest
    /\ UNCHANGED <<matchCall, analyticsCall, tx, obs, lastUpdate, nUpdates>>
    /\ UNCHANGED <<subs, queue, logs, notifyCall, unsubReq>>

RuleOf(user, anon, organization) ==
    Weekly(user, anon, organization, 0, <<Slot(T0900, T1100)>>, "sure")

\* Subscription tables: users 1 and 2 and anonymous subscription 1 subscribed
\* to organization 1, user 1 also to organization 2.
SubscribedTables ==
    { <<Subscription(1, 1, "all", ""), Subscription(1, 2, "all", ""),
        Subscription(2, 1, "all", ""), AnonymousSubscription(1, 1, "all", "", "")>>,
      <<Subscription(1, 1, "all", ""), AnonymousSubscription(1, 1, "all", "", "")>> }

\* Rules of subscribed pairs: none, of user 1 and anonymous subscription 1 in
\* organization 1, and also of user 1 in organization 2 and of user 2.
SubscribedRules(subscriptions) ==
    { <<>>,
      <<RuleOf(1, None, 1), RuleOf(None, 1, 1)>> }
      \cup (IF is_user_subscribed(subscriptions, 1, 2)
            THEN { <<RuleOf(1, None, 1), RuleOf(1, None, 2), RuleOf(2, None, 1),
                     RuleOf(None, 1, 1)>> }
            ELSE {})

SubscriptionInit ==
    /\ subs \in SubscribedTables
    /\ db \in SubscribedRules(subs)
    /\ queue = <<>>
    /\ logs = <<>>
    /\ notifyCall = NoCall
    /\ matchCall = NoCall
    /\ analyticsCall = NoAnalytics
    /\ tx = NoTx
    /\ obs = NoObs
    /\ lastUpdate = NoUpdate
    /\ nUpdates = 0
    /\ RequestIdle

SubscriptionNext ==
    \/ \E user \in {1, 2}, organization \in {1, 2} : Subscribe(user, organization)
    \/ \E user \in {1, 2}, organization \in {1, 2} : UnsubscribeUser(user, organization)
    \/ \E user \in {1, 2}, organization \in {1, 2} : DeleteSubscriptionBegin(user, organization)
    \/ DeleteSubscriptionAvailability
    \/ AnonymousUnsubscribe(1, 1)

SpecSubscription == SubscriptionInit /\ [][SubscriptionNext]_vars

\* The availability lists a set_availability request posts.
PostedData == { <<>>, <<ItemWeekly>>, <<ItemWeekly, ItemSpecificDate>> }

RequestNext ==
    \/ \E user \in {1, 2}, organization \in {1, 2}, availability_data \in PostedData :
          SetAvailabilityCheck(user, organization, availability_data)
    \/ SetAvailabilityUpdate
    \/ \E user \in {1, 2}, organization \in {1, 2} : DeleteSubscriptionBegin(user, organization)
    \/ DeleteSubscriptionAvailability

SpecRequests == SubscriptionInit /\ [][RequestNext]_vars

-----------------------------------------------------------------------------
(* Claims about the event matcher, checked under SpecMatch.                *)

\* Minutes since midnight of the event's start and of its end.
EventStartMinutes(event) ==
    event.start_datetime.time.hour * 60 + event.start_datetime.time.minute

EventEndMinutes(event) ==
    event.end_datetime.time.hour * 60 + event.end_datetime.time.minute

HasEnd(event) == event.end_datetime.date # NoneDate

\* The rows of the subscriber for the organization, as indices of db.
RulesOf(subscriber, organization) ==
    { i \in 1..Len(db) :
        /\ db[i].organization = organization
        /\ IF subscriber[1] = "user" THEN db[i].user = subscriber[2]
           ELSE db[i].anonymous_subscription = subscriber[2] }

\* A Weekly or SpecificDate rule applies to the date.
WeeklyOrDateApplies(r, d) ==
    \/ r.recurrence_type = "weekly" /\ r.day_of_week = weekday(d)
    \/ r.recurrence_type = "specific_date" /\ r.specific_date = d

\* Some slot [s,e) of the rule has lo < e and s < hi.
SomeSlotOverlaps(r, lo, hi) ==
    \E j \in 1..Len(r.time_slots) :
        lo < TextMinutes(r.time_slots[j].end) /\ TextMinutes(r.time_slots[j].start) < hi

MondayRule0911 == Weekly(1, None, 1, 0, <<Slot(T0900, T1100)>>, "sure")

\* C2: for a subscriber whose rules are Weekly or SpecificDate, the matcher
\* returns true if and only if some rule of the subscriber for the event's
\* organization applies to the event's start date and has a slot [s,e) with
\* event_start < e and s < event_end in minutes since midnight; a Weekly/Monday
\* 09:00-11:00 rule matches a Monday 09:30-10:00 event and does not match a
\* Monday 11:00-11:30 event.
C2_MatchIffStrictOverlap ==
    /\ (/\ matchCall.kind = "match"
        /\ HasEnd(matchCall.event)
        /\ \A i \in RulesOf(matchCall.subscriber, matchCall.event.organization) :
              db[i].recurrence_type \in {"weekly", "specific_date"})
       => (matchCall.result <=>
             \E i \in RulesOf(matchCall.subscriber, matchCall.event.organization) :
                /\ WeeklyOrDateApplies(db[i], matchCall.event.start_datetime.date)
                /\ SomeSlotOverlaps(db[i], EventStartMinutes(matchCall.event),
                                    EventEndMinutes(matchCall.event)))
    /\ (/\ matchCall.kind = "match"
        /\ db = <<MondayRule0911>>
        /\ matchCall.subscriber = <<"user", 1>>)
       => /\ matchCall.event = Event(1, Monday, T0930, Monday, T1000) => matchCall.result
          /\ matchCall.event = Event(1, Monday, T1100, Monday, T1130) => ~matchCall.result

\* C2 witness: the Monday 09:00-11:00 rule matched the Monday 09:30-10:00 event.
C2_Witness ==
    /\ matchCall.kind = "match"
    /\ db = <<MondayRule0911>>
    /\ matchCall.subscriber = <<"user", 1>>
    /\ matchCall.event = Event(1, Monday, T0930, Monday, T1000)
    /\ matchCall.result

\* The event's end time of day equals its start time of day, or it has no end.
Degenerate(event) ==
    ~HasEnd(event) \/ EventEndMinutes(event) = EventStartMinutes(event)

\* C8 as stated: an event with zero duration, or whose end time of day equals
\* its start time of day, never matches: the matcher returns false for it.
C8_DegenerateNeverMatches ==
    (matchCall.kind = "match" /\ Degenerate(matchCall.event)) => ~matchCall.result

\* C8 amended: an event whose end time of day equals its start time of day t,
\* or that has no end, matches exactly when a Weekly or SpecificDate rule of
\* the subscriber that applies to its start date has a slot [s,e) with
\* s < t < e; a slot that t only touches (t = s or t = e) never matches it.
C8_DegenerateMatchesStrictlyInside ==
    (matchCall.kind = "match" /\ Degenerate(matchCall.event))
       => (matchCall.result <=>
             \E i \in RulesOf(matchCall.subscriber, matchCall.event.organization) :
                /\ WeeklyOrDateApplies(db[i], matchCall.event.start_datetime.date)
                /\ \E j \in 1..Len(db[i].time_slots) :
                      /\ TextMinutes(db[i].time_slots[j].start) < EventStartMinutes(matchCall.event)
                      /\ EventStartMinutes(matchCall.event) < TextMinutes(db[i].time_slots[j].end))

\* C8 witness: an event without an end, at a time inside a slot, matched.
C8_Witness ==
    /\ matchCall.kind = "match"
    /\ ~HasEnd(matchCall.event)
    /\ matchCall.result

\* A Monthly rule of the subscriber falls on the event's day of the month and
\* has a slot that strictly overlaps the event's time span.
MonthlyRuleCovers(subscriber, event) ==
    \E i \in RulesOf(subscriber, event.organization) :
        /\ db[i].recurrence_type = "monthly"
        /\ db[i].day_of_month = event.start_datetime.date.day
        /\ SomeSlotOverlaps(db[i], EventStartMinutes(event), EventEndMinutes(event))

C10_NoSlotNoMatch ==
    (/\ matchCall.kind = "match"
     /\ \A i \in RulesOf(matchCall.subscriber, matchCall.event.organization) :
           db[i].time_slots = <<>>)
       => ~matchCall.result

\* C10 witness: a Weekly rule without slots applied to the event's date, and the
\* matcher returned false.
C10_Witness ==
    /\ matchCall.kind = "match"
    /\ RulesOf(matchCall.subscriber, matchCall.event.organization) # {}
    /\ \A i \in RulesOf(matchCall.subscriber, matchCall.event.organization) :
          /\ db[i].time_slots = <<>>
          /\ db[i].recurrence_type = "weekly"
          /\ db[i].day_of_week = weekday(matchCall.event.start_datetime.date)
    /\ ~matchCall.result

\* The event ends on a later calendar date than it starts.
EndsOnLaterDate(event) ==
    /\ HasEnd(event)
    /\ toordinal(event.end_datetime.date) > toordinal(event.start_datetime.date)

\* A Weekly or SpecificDate rule of the subscriber applies to the event's start
\* date and has a slot [s,e) with s <= event_start_time < e.
StartInsideSlot(subscriber, event) ==
    \E i \in RulesOf(subscriber, event.organization) :
        /\ WeeklyOrDateApplies(db[i], event.start_datetime.date)
        /\ \E j \in 1..Len(db[i].time_slots) :
              /\ TextMinutes(db[i].time_slots[j].start) <= EventStartMinutes(event)
              /\ EventStartMinutes(event) < TextMinutes(db[i].time_slots[j].end)

\* C30: for an event that ends on a later calendar date than it starts, the
\* matcher returns true whenever a rule that applies to the start date has a
\* slot [s,e) with s <= event_start_time < e.
C30_LaterEndMatchesOnStartDate ==
    (/\ matchCall.kind = "match"
     /\ EndsOnLaterDate(matchCall.event)
     /\ StartInsideSlot(matchCall.subscriber, matchCall.event))
       => matchCall.result

-----------------------------------------------------------------------------
(* Claims about the analytics, checked under SpecAnalytics.                *)

\* The identities of a list of subscriber details.
Ids(details) == [k \in 1..Len(details) |-> details[k].id]

\* The entries of datetime_slot_details for one date, with the identities of
\* their sure and maybe lists.
EntriesOn(datetime_slot_details, date_text) ==
    LET on == SelectSeq(datetime_slot_details, LAMBDA e : e.date = date_text)
    IN  [k \in 1..Len(on) |-> [time |-> on[k].time, sure |-> Ids(on[k].sure),
                               maybe |-> Ids(on[k].maybe)]]

\* '2024-04-29'
MondayText == <<2, 0, 2, 4, 0, 4, 2, 9>>

\* C1: with subscriber A holding a Weekly/Monday rule 09:00-12:00 (sure) and
\* subscriber B a Weekly/Monday rule 10:00-14:00 (maybe), a date range that
\* contains the Monday yields for that Monday exactly three atomic intervals:
\* 09:00-10:00 with sure=[A], 10:00-12:00 with sure=[A] and maybe=[B], and
\* 12:00-14:00 with maybe=[B].
C1_ThreeAtomicIntervals ==
    (/\ analyticsCall.kind = "analytics"
     /\ db \in {<<RuleA, RuleB>>, <<RuleB, RuleA>>}
     /\ analyticsCall.start_date = Monday)
       => EntriesOn(analyticsCall.analytics.datetime_slot_details, MondayText)
            = << [time |-> <<<<0, 9, 0, 0>>, <<1, 0, 0, 0>>>>,
                  sure |-> << <<"user", 1>> >>, maybe |-> <<>>],
                 [time |-> <<<<1, 0, 0, 0>>, <<1, 2, 0, 0>>>>,
                  sure |-> << <<"user", 1>> >>, maybe |-> << <<"user", 2>> >>],
                 [time |-> <<<<1, 2, 0, 0>>, <<1, 4, 0, 0>>>>,
                  sure |-> <<>>, maybe |-> << <<"user", 2>> >>] >>

\* C1 witness: the analytics ran on the two rules over a range with the Monday.
C1_Witness ==
    /\ analyticsCall.kind = "analytics"
    /\ db = <<RuleA, RuleB>>
    /\ analyticsCall.start_date = Monday
    /\ analyticsCall.end_date = Wednesday
    /\ Len(analyticsCall.analytics.datetime_slot_details) = 3

\* The covering subscribers of an entry of datetime_slot_details.
Covering(entry) ==
    { entry.sure[k].id : k \in 1..Len(entry.sure) }
        \cup { entry.maybe[k].id : k \in 1..Len(entry.maybe) }

\* C3: every atomic interval is maximal: no two adjacent reported intervals of
\* one date (the end of one is the start of the other) have the same set of
\* covering subscribers.
C3_AdjacentIntervalsDiffer ==
    analyticsCall.kind = "analytics"
       => LET details == analyticsCall.analytics.datetime_slot_details
          IN  \A i, j \in 1..Len(details) :
                 (details[i].date = details[j].date /\ details[i].time[2] = details[j].time[1])
                    => Covering(details[i]) # Covering(details[j])

\* C4: the ranked list is ordered by descending (sure_count, maybe_count), and
\* slots with equal counts by earliest date and then earliest start time.
C4_RankedByCountsDateStart ==
    analyticsCall.kind = "analytics"
       => \A i, j \in 1..Len(analyticsCall.top_datetime_slots) :
             i < j => RankedBefore(analyticsCall.top_datetime_slots[i],
                                   analyticsCall.top_datetime_slots[j])

\* The rows in another read order.
Reordered(rows, p) == [k \in 1..Len(rows) |-> rows[p[k]]]

\* C5: the ranked output is a function of the rule set and the date range:
\* reading the same rows in any other order yields the same ranked slots in the
\* same order and the same sure and maybe lists.
C5_ReadOrderIndependent ==
    analyticsCall.kind = "analytics"
       => \A p \in Permutations(1..Len(db)) :
             LET other == get_availability_analytics(Reordered(db, p), analyticsCall.organization,
                                                     analyticsCall.start_date,
                                                     analyticsCall.end_date)
             IN  /\ top_datetime_slots(other.datetime_slot_scores)
                      = analyticsCall.top_datetime_slots
                 /\ { other.datetime_slot_details[k] : k \in 1..Len(other.datetime_slot_details) }
                      = { analyticsCall.analytics.datetime_slot_details[k] :
                            k \in 1..Len(analyticsCall.analytics.datetime_slot_details) }

\* Has the sequence no element twice.
NoDuplicates(q) == \A i, j \in 1..Len(q) : q[i] = q[j] => i = j

\* The slots the analytics collected from the rows of the call.
CallSlots ==
    collect_subscriber_slots(FilterOrganization(db, analyticsCall.organization),
                             DateRange(analyticsCall.start_date, analyticsCall.end_date))

\* C11: in datetime_slot_details every subscriber identity appears at most once
\* per (date, atomic interval) over the sure and maybe lists together, also
\* when several of the subscriber's rules or slots, of the same or of
\* different confidence, cover the interval.
C11_OncePerInterval ==
    analyticsCall.kind = "analytics"
       => \A k \in 1..Len(analyticsCall.analytics.datetime_slot_details) :
             LET entry == analyticsCall.analytics.datetime_slot_details[k]
             IN  NoDuplicates(Ids(entry.sure) \o Ids(entry.maybe))

\* An interval covered by a sure slot and a maybe slot of the same subscriber.
C11_Witness ==
    /\ analyticsCall.kind = "analytics"
    /\ \E k \in 1..Len(analyticsCall.analytics.datetime_slot_details) :
          LET entry == analyticsCall.analytics.datetime_slot_details[k]
              covering == { i \in 1..Len(CallSlots) :
                              /\ strftime_date(CallSlots[i].date) = entry.date
                              /\ Covers(CallSlots[i], TextMinutes(entry.time[1]),
                                        TextMinutes(entry.time[2])) }
          IN  \E i, j \in covering :
                 /\ CallSlots[i].subscriber.id = CallSlots[j].subscriber.id
                 /\ CallSlots[i].subscriber.availability_type = "sure"
                 /\ CallSlots[j].subscriber.availability_type = "maybe"

\* The rows without the rules that hold unparsable time text.
GoodRows(rows) == SelectSeq(rows, LAMBDA r : ~SlotRaises(r))

\* C12: a rule with unparsable time text in a slot is skipped: the analytics
\* complete and report the atomic intervals of all the other rules.
C12_BadRuleSkipped ==
    (analyticsCall.kind \in {"analytics", "raised"} /\ GoodRows(db) # db)
       => /\ analyticsCall.kind = "analytics"
          /\ analyticsCall.analytics.datetime_slot_details
               = get_availability_analytics(GoodRows(db), analyticsCall.organization,
                                            analyticsCall.start_date,
                                            analyticsCall.end_date).datetime_slot_details

\* The rows of the call's organization.
CallRows == FilterOrganization(db, analyticsCall.organization)

\* The empty-result cases of a call: no rule of the organization, an empty
\* date window, or no rule with a slot on a date of the window.
EmptyResultCase ==
    \/ CallRows = <<>>
    \/ ~DateLE(analyticsCall.start_date, analyticsCall.end_date)
    \/ \A i \in 1..Len(CallRows) :
          \/ CallRows[i].time_slots = <<>>
          \/ ApplicableDates(CallRows[i], DateRange(analyticsCall.start_date,
                                                    analyticsCall.end_date)) = <<>>

\* C13: in every empty-result case the analytics return, without raising,
\* empty slot details, empty slot scores, an empty weekly summary and a total
\* subscriber count of 0.
C13_EmptyAnalytics ==
    (analyticsCall.kind \in {"analytics", "raised"} /\ EmptyResultCase)
       => /\ analyticsCall.kind = "analytics"
          /\ analyticsCall.analytics.datetime_slot_details = <<>>
          /\ analyticsCall.analytics.datetime_slot_scores = <<>>
          /\ analyticsCall.analytics.weekly_summary = <<>>
          /\ analyticsCall.analytics.total_subscribers = 0

\* The identities listed by the weekly summary for weekday d (0 is Monday);
\* the summary of the empty cases has no entry at all.
SummaryIds(weekly_summary, d) ==
    IF weekly_summary = <<>> THEN {}
    ELSE { weekly_summary[d + 1].subscribers[k].id :
             k \in 1..Len(weekly_summary[d + 1].subscribers) }

\* The identity of the owner of a rule.
OwnerId(availability) == SubscriberInfo(availability).id

\* The subscribers holding a Weekly rule with at least one slot on weekday d.
WeeklyOwners(rows, d) ==
    { OwnerId(rows[i]) : i \in { k \in 1..Len(rows) :
                                   /\ rows[k].recurrence_type = "weekly"
                                   /\ rows[k].day_of_week = d
                                   /\ rows[k].time_slots # <<>> } }

\* C14: the weekly summary does not depend on the date window: for every
\* weekday it lists every distinct subscriber holding a Weekly rule with a slot
\* on that weekday, whatever the start and the end date.
C14_WeeklySummaryWindowFree ==
    analyticsCall.kind = "analytics"
       => \A d \in 0..6 :
             SummaryIds(analyticsCall.analytics.weekly_summary, d) = WeeklyOwners(CallRows, d)

\* C15: the weekly summary counts only Weekly rules, and each subscriber at
\* most once per weekday: every subscriber of a weekday's list holds a Weekly
\* rule on that weekday, and no identity is listed twice.
C15_WeeklyOnlyOncePerDay ==
    (analyticsCall.kind = "analytics" /\ analyticsCall.analytics.weekly_summary # <<>>)
       => \A d \in 0..6 :
             LET entry == analyticsCall.analytics.weekly_summary[d + 1]
             IN  /\ SummaryIds(analyticsCall.analytics.weekly_summary, d)
                      \subseteq WeeklyOwners(CallRows, d)
                 /\ NoDuplicates(Ids(entry.subscribers))
                 /\ entry.subscriber_count = Len(entry.subscribers)
                 /\ entry.sure_count + entry.maybe_count = entry.subscriber_count

\* A summary computed from a subscriber's two Weekly slots of one weekday and
\* from a slot of a Monthly or SpecificDate rule.
C15_Witness ==
    /\ analyticsCall.kind = "analytics"
    /\ analyticsCall.analytics.weekly_summary # <<>>
    /\ \E i, j \in 1..Len(CallSlots) :
          /\ i # j
          /\ CallSlots[i].recurrence_type = "weekly"
          /\ CallSlots[j].recurrence_type = "weekly"
          /\ CallSlots[i].subscriber.id = CallSlots[j].subscriber.id
          /\ CallSlots[i].day_name = CallSlots[j].day_name
    /\ \E i \in 1..Len(CallSlots) : CallSlots[i].recurrence_type # "weekly"

InsertAt(rows, pos, r) == SubSeq(rows, 1, pos) \o <<r>> \o SubSeq(rows, pos + 1, Len(rows))

\* The place of the slot in a ranked list, 0 when it is not listed.
PlaceOf(ranked, slot) ==
    IF \E k \in 1..Len(ranked) : ranked[k].date = slot.date /\ ranked[k].time = slot.time
    THEN CHOOSE k \in 1..Len(ranked) : ranked[k].date = slot.date /\ ranked[k].time = slot.time
    ELSE 0

\* Is the owner of the rule listed as sure for the slot in the details.
ListedSure(datetime_slot_details, slot, owner) ==
    \E k \in 1..Len(datetime_slot_details) :
        /\ datetime_slot_details[k].date = slot.date
        /\ datetime_slot_details[k].time = slot.time
        /\ \E n \in 1..Len(datetime_slot_details[k].sure) :
              datetime_slot_details[k].sure[n].id = owner

\* The sure rules of a new subscriber that may be added.
AddedRuleChoices ==
    { Weekly(2, None, 1, 0, <<Slot(T0900, T1200)>>, "sure"),
      Weekly(2, None, 1, 0, <<Slot(T0800, T1400)>>, "sure") }

\* C17: ranking is monotone: when a sure rule of a subscriber without rules
\* is added and covers an existing atomic interval, that interval stays ahead
\* of every slot it was ranked ahead of before.
C17_RankMonotone ==
    analyticsCall.kind = "analytics"
       => \A r \in AddedRuleChoices, pos \in 0..Len(db) :
             LET before == analyticsCall.top_datetime_slots
                 result == get_availability_analytics(InsertAt(db, pos, r),
                                                      analyticsCall.organization,
                                                      analyticsCall.start_date,
                                                      analyticsCall.end_date)
                 after == top_datetime_slots(result.datetime_slot_scores)
             IN  (/\ \A n \in 1..Len(db) : OwnerId(db[n]) # OwnerId(r)
                  /\ ~IsRaised(result))
                    => \A i, j \in 1..Len(before) :
                          (/\ i < j
                           /\ ListedSure(result.datetime_slot_details, before[i], OwnerId(r))
                           /\ PlaceOf(after, before[i]) # 0
                           /\ PlaceOf(after, before[j]) # 0)
                             => PlaceOf(after, before[i]) < PlaceOf(after, before[j])

\* The owner of a rule as the pair of its kind and its id.
OwnerPair(availability) ==
    IF availability.user # None THEN <<"user", availability.user>>
    ELSE <<"anon", availability.anonymous_subscription>>

\* The date window of the call.
CallRange == DateRange(analyticsCall.start_date, analyticsCall.end_date)

\* Has the rule a slot [s,e) with s <= p and e >= q, in minutes.
HasSlotContaining(availability, p, q) ==
    \E j \in 1..Len(availability.time_slots) :
        /\ TextMinutes(availability.time_slots[j].start) <= p
        /\ TextMinutes(availability.time_slots[j].end) >= q

\* The owners with a rule that applies to the date and has a slot containing
\* the interval.
CoveringOwners(rows, date, p, q) ==
    { OwnerPair(rows[i]) : i \in { k \in 1..Len(rows) :
                                     /\ AvailabilityApplies(rows[k], date)
                                     /\ HasSlotContaining(rows[k], p, q) } }

\* The owners with a rule that has a slot on a date of the window.
ContributingOwners(rows, date_range) ==
    { OwnerPair(rows[i]) : i \in { k \in 1..Len(rows) :
                                     /\ rows[k].time_slots # <<>>
                                     /\ ApplicableDates(rows[k], date_range) # <<>> } }

\* The owners with a Weekly rule of weekday d that has a slot on a date of the
\* window.
WeeklyContributingOwners(rows, date_range, d) ==
    { OwnerPair(rows[i]) : i \in { k \in 1..Len(rows) :
                                     /\ rows[k].recurrence_type = "weekly"
                                     /\ rows[k].day_of_week = d
                                     /\ rows[k].time_slots # <<>>
                                     /\ ApplicableDates(rows[k], date_range) # <<>> } }

\* C23: the identity of a subscriber in the analytics is the pair of owner
\* kind and owner id, never name or email: every atomic interval lists as
\* many subscribers as there are distinct (kind, id) owners covering it, every
\* weekday of the weekly summary and the total subscriber count count the
\* distinct (kind, id) owners, so a user and an anonymous subscription with the
\* same id, name and email count as two.
C23_IdentityIsKindAndId ==
    (analyticsCall.kind = "analytics" /\ analyticsCall.analytics.datetime_slot_details # <<>>)
       => /\ \A k \in 1..Len(analyticsCall.analytics.datetime_slot_details) :
                LET entry == analyticsCall.analytics.datetime_slot_details[k]
                IN  Len(entry.sure) + Len(entry.maybe)
                      = Cardinality(CoveringOwners(CallRows, strptime_date(entry.date),
                                                   TextMinutes(entry.time[1]),
                                                   TextMinutes(entry.time[2])))
          /\ \A d \in 0..6 :
                analyticsCall.analytics.weekly_summary[d + 1].subscriber_count
                  = Cardinality(WeeklyContributingOwners(CallRows, CallRange, d))
          /\ analyticsCall.analytics.total_subscribers
               = Cardinality(ContributingOwners(CallRows, CallRange))

\* User 1 and anonymous subscription 1, of the same name and email, are both
\* listed for one atomic interval.
C23_Witness ==
    /\ analyticsCall.kind = "analytics"
    /\ \E k \in 1..Len(analyticsCall.analytics.datetime_slot_details) :
          LET entry == analyticsCall.analytics.datetime_slot_details[k]
          IN  {<<"user", 1>>, <<"anon", 1>>}
                \subseteq CoveringOwners(CallRows, strptime_date(entry.date),
                                         TextMinutes(entry.time[1]),
                                         TextMinutes(entry.time[2]))
    /\ UserName(1) = AnonymousName(1)
    /\ UserEmail(1) = AnonymousEmail(1)
    /\ analyticsCall.analytics.total_subscribers = 2

\* The start and end minutes of the slots of the rules that apply to a date.
BoundariesOn(rows, date) ==
    UNION { UNION { {TextMinutes(rows[i].time_slots[j].start),
                     TextMinutes(rows[i].time_slots[j].end)} :
                       j \in 1..Len(rows[i].time_slots) } :
              i \in { k \in 1..Len(rows) : AvailabilityApplies(rows[k], date) } }

\* Is there an entry of datetime_slot_details for the date and the interval.
Reported(datetime_slot_details, date, p, q) ==
    \E k \in 1..Len(datetime_slot_details) :
        /\ datetime_slot_details[k].date = strftime_date(date)
        /\ TextMinutes(datetime_slot_details[k].time[1]) = p
        /\ TextMinutes(datetime_slot_details[k].time[2]) = q

\* C24: a subscriber is listed for the atomic interval [p,q) on date d if and
\* only if the subscriber has a rule that applies to d with a slot [s,e),
\* s <= p and e >= q; a slot that covers only part of the interval credits
\* nobody; an atomic interval is reported exactly when somebody covers it.
C24_ListedIffFullyCovered ==
    analyticsCall.kind = "analytics"
       => /\ \A k \in 1..Len(analyticsCall.analytics.datetime_slot_details) :
                LET entry == analyticsCall.analytics.datetime_slot_details[k]
                    listed == { entry.sure[i].id : i \in 1..Len(entry.sure) }
                                \cup { entry.maybe[i].id : i \in 1..Len(entry.maybe) }
                IN  /\ listed # {}
                    /\ listed = CoveringOwners(CallRows, strptime_date(entry.date),
                                               TextMinutes(entry.time[1]),
                                               TextMinutes(entry.time[2]))
          /\ \A n \in 1..Len(CallRange) :
                LET date == CallRange[n]
                    boundaries == BoundariesOn(CallRows, date)
                IN  \A p, q \in boundaries :
                       (p < q /\ ~\E b \in boundaries : p < b /\ b < q)
                          => (Reported(analyticsCall.analytics.datetime_slot_details, date, p, q)
                                <=> CoveringOwners(CallRows, date, p, q) # {})

\* An atomic interval lists one subscriber while another subscriber has, on
\* the same date, a slot that does not contain it; and an atomic interval
\* between two slots is covered by nobody.
C24_Witness ==
    /\ analyticsCall.kind = "analytics"
    /\ \E k \in 1..Len(analyticsCall.analytics.datetime_slot_details) :
          LET entry == analyticsCall.analytics.datetime_slot_details[k]
              date == strptime_date(entry.date)
          IN  \E i \in 1..Len(CallRows) :
                 /\ AvailabilityApplies(CallRows[i], date)
                 /\ CallRows[i].time_slots # <<>>
                 /\ OwnerPair(CallRows[i])
                      \notin CoveringOwners(CallRows, date, TextMinutes(entry.time[1]),
                                            TextMinutes(entry.time[2]))
    /\ \E n \in 1..Len(CallRange) :
          LET boundaries == BoundariesOn(CallRows, CallRange[n])
          IN  \E p, q \in boundaries :
                 /\ p < q
                 /\ ~\E b \in boundaries : p < b /\ b < q
                 /\ CoveringOwners(CallRows, CallRange[n], p, q) = {}

-----------------------------------------------------------------------------
(* Claims about the recurrence expansion, checked under SpecExpand.        *)

\* Every calendar date of the years of the windows.
CalendarDates ==
    UNION { { Date(y, m, d) : d \in 1..DaysInMonth(y, m) } : y \in {2023, 2024}, m \in 1..12 }

\* The calendar dates from start_date to end_date.
DatesBetween(start_date, end_date) ==
    { d \in CalendarDates : DateLE(start_date, d) /\ DateLE(d, end_date) }

\* The dates a rule stands for in a range: the weekday of a Weekly rule, the
\* day of the month of a Monthly rule, the date of a SpecificDate rule.
ExpectedDates(availability, start_date, end_date) ==
    { d \in DatesBetween(start_date, end_date) :
        \/ availability.recurrence_type = "weekly" /\ weekday(d) = availability.day_of_week
        \/ availability.recurrence_type = "monthly" /\ d.day = availability.day_of_month
        \/ availability.recurrence_type = "specific_date" /\ d = availability.specific_date }

\* The dates of the slots collected for an owner.
CollectedDates(subscriber_slots, owner) ==
    { subscriber_slots[i].date :
        i \in { k \in 1..Len(subscriber_slots) : subscriber_slots[k].subscriber.id = owner } }

\* C25: the slots collected over a date range fall, for a Weekly rule, on
\* exactly the dates of the range whose weekday is day_of_week; for a Monthly
\* rule on exactly the dates whose day of the month is day_of_month, so none
\* in a month shorter than day_of_month; for a SpecificDate rule on that date
\* alone when it lies in the range and on no date otherwise.
C25_ExpansionByRecurrence ==
    analyticsCall.kind = "collected"
       => \A i \in 1..Len(db) :
             CollectedDates(analyticsCall.subscriber_slots, OwnerPair(db[i]))
               = ExpectedDates(db[i], analyticsCall.start_date, analyticsCall.end_date)

\* The Monthly rule of the 31st over April and May: the only date is May 31.
C25_Witness ==
    /\ analyticsCall.kind = "collected"
    /\ db = <<Monthly(1, None, 1, 31, OneSlot, "sure")>>
    /\ analyticsCall.start_date = Date(2024, 4, 1)
    /\ CollectedDates(analyticsCall.subscriber_slots, <<"user", 1>>) = {Date(2024, 5, 31)}

-----------------------------------------------------------------------------
(* Claims about update_availability, checked under Spec.                   *)

\* The rows of one (subscriber, organization) pair among rows.
PairRows(rows, user, anon, organization) ==
    IF user # None THEN FilterUser(rows, user, organization)
    ELSE FilterAnonymous(rows, anon, organization)

\* The subscriber of an update, as the matcher names it.
SubscriberOf(update) ==
    IF update.user # None THEN <<"user", update.user>>
    ELSE <<"anon", update.anonymous_subscription>>

\* Does the read cover the pair of the update: the matcher's read of the same
\* pair, or the analytics' read of its organization.
ReadCovers(read, update) ==
    /\ read.kind = "read"
    /\ read.organization = update.organization
    /\ read.by = "matcher" => read.subscriber = SubscriberOf(update)

\* The events of the organization, among the bounded set, that the rows make
\* the subscriber match.
MatchedEvents(rows, subscriber, organization) ==
    {event \in EventChoices :
        event.organization = organization /\ matches_event(rows, subscriber, event)}

\* C6: update_availability is atomic for concurrent readers.  A read taken
\* while a call is in progress sees the pair's complete rule set from before
\* the call, and a read taken after the call returned sees exactly the records
\* the call returned, never the emptied or half-written set in between.
C6_ReadersSeeOldOrNew ==
    /\ (tx.open /\ ReadCovers(obs, tx))
          => PairRows(obs.rows, tx.user, tx.anonymous_subscription, tx.organization)
               = PairRows(tx.snapshot, tx.user, tx.anonymous_subscription, tx.organization)
    /\ (~tx.open /\ lastUpdate.kind = "returned" /\ ReadCovers(obs, lastUpdate))
          => PairRows(obs.rows, lastUpdate.user, lastUpdate.anonymous_subscription,
                      lastUpdate.organization)
               = lastUpdate.created_records

\* A read of the pair while its old rules are deleted and the new ones are not
\* all written.
C6_Witness ==
    /\ tx.open
    /\ tx.pc = "create"
    /\ ReadCovers(obs, tx)
    /\ PairRows(tx.snapshot, tx.user, tx.anonymous_subscription, tx.organization) # <<>>
    /\ PairRows(tx.work, tx.user, tx.anonymous_subscription, tx.organization)
         # PairRows(tx.snapshot, tx.user, tx.anonymous_subscription, tx.organization)

\* The rows that do not belong to the pair: those of another subscriber, and
\* those of the same subscriber for another organization.
OtherRows(rows, user, anon, organization) ==
    SelectSeq(rows, LAMBDA r : ~(/\ r.user = user
                                 /\ r.anonymous_subscription = anon
                                 /\ r.organization = organization))

\* C26: update_availability for one (subscriber, organization) pair leaves
\* every rule of every other subscriber, and every rule of the same subscriber
\* for another organization, as it was before the call.
C26_OtherRulesUnchanged ==
    lastUpdate.kind = "returned"
       => OtherRows(db, lastUpdate.user, lastUpdate.anonymous_subscription,
                    lastUpdate.organization)
            = OtherRows(lastUpdate.before, lastUpdate.user,
                        lastUpdate.anonymous_subscription, lastUpdate.organization)

\* A call for user 1 has returned that deleted the pair's rule and created a new
\* one, while a rule of the anonymous subscription and a rule of user 1 for the
\* other organization were stored.
C26_Witness ==
    /\ lastUpdate.kind = "returned"
    /\ lastUpdate.user = 1
    /\ lastUpdate.created_records # <<>>
    /\ PairRows(lastUpdate.before, lastUpdate.user, lastUpdate.anonymous_subscription,
                lastUpdate.organization) # <<>>
    /\ \E i \in 1..Len(lastUpdate.before) :
          /\ lastUpdate.before[i].user = 1
          /\ lastUpdate.before[i].organization # lastUpdate.organization
    /\ \E i \in 1..Len(lastUpdate.before) : lastUpdate.before[i].anonymous_subscription = 1
    /\ db # lastUpdate.before

\* The submitted items that the form accepts and that carry time slots.
AcceptedWithSlots(availability_data) ==
    SelectSeq(availability_data,
              LAMBDA item : _validate_availability_item(item) /\ item.time_slots # <<>>)

\* The record has the recurrence, the slots and the confidence of the item.
SameRule(record, item) ==
    /\ record.recurrence_type = item.recurrence_type
    /\ record.day_of_week = item.day_of_week
    /\ record.day_of_month = item.day_of_month
    /\ IF item.specific_date = NoText THEN record.specific_date = NoneDate
       ELSE /\ record.specific_date # NoneDate
            /\ strftime_date(record.specific_date) = item.specific_date
    /\ record.time_slots = item.time_slots
    /\ record.availability_type = item.availability_type

\* C27: every item the form accepts with a non-empty time_slots list is stored
\* as a rule with the same recurrence, slots and confidence, and the number of
\* records returned is the number of such items.
C27_AcceptedItemsStored ==
    lastUpdate.kind = "returned"
       => LET accepted == AcceptedWithSlots(lastUpdate.availability_data)
          IN  /\ Len(lastUpdate.created_records) = Len(accepted)
              /\ \A k \in 1..Len(accepted) :
                    /\ SameRule(lastUpdate.created_records[k], accepted[k])
                    /\ \E i \in 1..Len(db) : db[i] = lastUpdate.created_records[k]

\* The arguments of a call that the head of update_availability refuses: no
\* organization, no owner, or two owners.
BadArguments(call) ==
    \/ call.organization = None
    \/ call.user = None /\ call.anonymous_subscription = None
    \/ call.user # None /\ call.anonymous_subscription # None

\* C29: a call without an organization, or with neither or both of user and
\* anonymous_subscription, raises and never runs (no transaction is open for
\* it and it never returns), and after it has raised the stored rules are
\* exactly the rules stored before the call.
C29_RaiseLeavesRulesAsBefore ==
    /\ lastUpdate.kind = "raised" => BadArguments(lastUpdate) /\ db = lastUpdate.before
    /\ lastUpdate.kind = "returned" => ~BadArguments(lastUpdate)
    /\ tx.open => ~BadArguments(tx)

\* A call with both a user and an anonymous subscription has raised while
\* rules of that user for that organization were stored.
C29_Witness ==
    /\ lastUpdate.kind = "raised"
    /\ lastUpdate.user # None
    /\ lastUpdate.anonymous_subscription # None
    /\ FilterUser(db, lastUpdate.user, lastUpdate.organization) # <<>>

\* C7: after update_availability with an empty rule list the pair has no
\* rules left, and no event of the organization matches the subscriber any
\* more.
C7_EmptyListClears ==
    (lastUpdate.kind = "returned" /\ lastUpdate.availability_data = <<>>)
       => /\ PairRows(db, lastUpdate.user, lastUpdate.anonymous_subscription,
                      lastUpdate.organization) = <<>>
          /\ MatchedEvents(db, SubscriberOf(lastUpdate), lastUpdate.organization) = {}

\* An empty list submitted by a subscriber whose rules matched some event.
C7_Witness ==
    /\ lastUpdate.kind = "returned"
    /\ lastUpdate.availability_data = <<>>
    /\ MatchedEvents(lastUpdate.before, SubscriberOf(lastUpdate), lastUpdate.organization) # {}

\* Exactly one of the two owner variants is set.
ExactlyOneOwner(user, anonymous_subscription) ==
    (user # None) # (anonymous_subscription # None)

\* C19: after any sequence of update_availability calls every stored
\* availability rule has exactly one owner, user or anonymous_subscription,
\* never both and never neither; the same holds for the rows written and the
\* owner named by a call that is still running.
C19_RuleHasOneOwner ==
    /\ \A k \in 1..Len(db) : ExactlyOneOwner(db[k].user, db[k].anonymous_subscription)
    /\ tx.open =>
          /\ ExactlyOneOwner(tx.user, tx.anonymous_subscription)
          /\ \A k \in 1..Len(tx.work) :
                ExactlyOneOwner(tx.work[k].user, tx.work[k].anonymous_subscription)

\* Two calls returned and the table holds a rule of a user and a rule of an
\* anonymous subscription.
C19_Witness ==
    /\ nUpdates = MaxUpdates
    /\ ~tx.open
    /\ \E k \in 1..Len(db) : db[k].user # None /\ db[k].anonymous_subscription = None
    /\ \E k \in 1..Len(db) : db[k].user = None /\ db[k].anonymous_subscription # None

\* C21: a rule with an empty time_slots list is a valid rule and not an
\* error: an item without time slots that the form accepts is accepted by the
\* validation of update_availability and stored as a rule without slots.
C21_EmptySlotsAccepted ==
    lastUpdate.kind = "returned" =>
        \A i \in 1..Len(lastUpdate.availability_data) :
            LET item == lastUpdate.availability_data[i]
            IN  (_validate_availability_item(item) /\ item.time_slots = <<>>) =>
                    \E k \in 1..Len(lastUpdate.created_records) :
                        /\ lastUpdate.created_records[k].time_slots = <<>>
                        /\ lastUpdate.created_records[k].recurrence_type = item.recurrence_type
                        /\ lastUpdate.created_records[k].day_of_week = item.day_of_week

-----------------------------------------------------------------------------
(* Claims about unsubscribing, checked under SpecSubscription and          *)
(* SpecRequests.                                                           *)

\* The rules stored for a subscriber and an organization.
StoredFor(rows, subscriber, organization) ==
    IF subscriber[1] = "user" THEN FilterUser(rows, subscriber[2], organization)
    ELSE FilterAnonymous(rows, subscriber[2], organization)

\* C22: after a subscriber unsubscribes from an organization no availability
\* rule of that subscriber and organization remains stored, for a registered
\* user through unsubscribe_user or delete_subscription and for an anonymous
\* subscriber.
C22_UnsubscribeDeletesRules ==
    (lastOp.kind = "unsubscribed" /\ lastOp.result) =>
        StoredFor(db, lastOp.subscriber, lastOp.organization) = <<>>

\* C28: under any interleaving of a user's set_availability request and that
\* user's unsubscribe request for the same organization, once both have
\* finished and the user has no subscription to the organization, no
\* availability rule is stored for the pair.
C28_NoRuleWithoutSubscription ==
    (setReq = NoRequest /\ unsubReq = NoRequest) =>
        \A user \in {1, 2}, organization \in {1, 2} :
            ~is_user_subscribed(subs, user, organization) =>
                FilterUser(db, user, organization) = <<>>

-----------------------------------------------------------------------------
(* Claims about the notifications, checked under SpecNotify.               *)

\* The subscriber a subscription stands for, as the matcher names it.
SubscriberOfSubscription(subscription) ==
    IF subscription.model = "Subscription" THEN <<"user", subscription.user>>
    ELSE <<"anon", subscription.id>>

\* The run queued a task for the subscription.
Enqueued(call, subscription) ==
    \E k \in 1..Len(call.enqueued) :
        /\ call.enqueued[k].user_id = subscription.user
        /\ call.enqueued[k].anon_subscription_id = subscription.id

\* C18: a run of send_event_notifications ends without an exception, and it
\* queues a notification for a subscriber of the event's organization whose
\* preference is 'matching' exactly when the event matcher (strict half-open
\* overlap with a slot of a rule applying to the event's start date) holds for
\* the subscriber and the event; a subscriber whose preference is 'all' is
\* always queued.
C18_EnqueuedIffMatcher ==
    notifyCall.kind = "notify" =>
        /\ ~notifyCall.raised
        /\ \A k \in 1..Len(subs) :
             subs[k].organization = notifyCall.event.organization =>
                 (Enqueued(notifyCall, subs[k])
                    <=> \/ subs[k].notification_preference = "all"
                        \/ /\ subs[k].notification_preference = "matching"
                           /\ matches_event(db, SubscriberOfSubscription(subs[k]),
                                            notifyCall.event))

\* C20: every NotificationLog row written by the delivery tasks has exactly
\* one of user and anonymous_subscription set, for deliveries to registered
\* users and to anonymous subscribers, on success and on failure.
C20_LogHasOneOwner ==
    \A k \in 1..Len(logs) :
        (logs[k].user # None) # (logs[k].anonymous_subscription # None)

====
